---- MODULE Spec2Model ----
(***************************************************************************)
(* AetherPay quote core: the multi-source price aggregator                 *)
(* (oracle/realtime_price_fetcher.py), the 30 s prediction-strategy        *)
(* selector (models/aetherpay_predictor.py on top of                       *)
(* models/oracle_predictor.py) and the settlement-path optimizer           *)
(* (oracle/dex_path_optimizer.py).                                         *)
(*                                                                         *)
(* Numbers are exact rationals [n, d] in lowest terms (the code uses       *)
(* binary floats; a decimal rounding whose argument lies exactly half-way  *)
(* between two neighbours is therefore modelled as a choice of either).    *)
(* Strings the code takes apart (pair names) are sequences of characters.  *)
(***************************************************************************)
EXTENDS Integers, Sequences, FiniteSets, TLC

VARIABLES
    settlement_paths,   \* PathOptimizer.settlement_paths, in declaration order
    opt_call,           \* PathOptimizer call: "idle", the running method, "returned"
    opt_args,           \* its arguments [pair, amount, confidence]
    opt_result,         \* what it returned
    opt_low_seen,       \* history: this instance has scored a call with confidence < 0.8
    agg_pc,             \* aggregate_prices: "idle", "entry", "collecting", "returned", "exited"
    agg_symbol,         \* its symbol argument
    agg_source,         \* index in self.sources of the source fetched next
    prices,             \* the local list prices
    source_results,     \* the local dict source_results, as a set of [source, price]
    agg_result,         \* the value aggregate_prices returned
    agg_output,         \* what main printed
    agg_waited,         \* seconds aggregate_prices has spent in requests that timed out
    pred_pc,            \* AetherPayPredictor call: "idle", "predict_30s", "returned"
    pred_args,          \* its arguments [pair, amount, confidence_threshold]
    pred_result,        \* what predict_30s returned
    realtime_latest,    \* answer of localhost:3001/realtime to _get_latest_price
    realtime_oracle,    \* answer of localhost:3001/realtime to OraclePredictor.predict
    exchange_rates,     \* table exchange_rates of aether_oracle.db
    models,             \* OraclePredictor.models: the pairs with a loaded model
    model_output,       \* what model.predict(features) does
    price_std,          \* df['price'].std() of the rows predict reads
    predictor,          \* the AetherPayPredictor instance: its tables
    realtime_requests,  \* the pairs the running call asked localhost:3001/realtime about
    opx_pc,             \* OptimizedAetherPayPredictor: "new", "idle", "predict_optimized", "returned"
    opx_args,           \* arguments of predict_optimized
    opx_result,         \* what predict_optimized returned, or Raised
    opx_failed,         \* the redis calls of this request that raised
    cache_enabled,      \* OptimizedAetherPayPredictor.cache_enabled
    redis_store,        \* the keys held by the redis server, as a set of [key, data]
    cls_pc,             \* classification of a pair string: "idle", "called", "classified", "reclassified"
    cls_pair,           \* the pair string
    cls_first,          \* how it was classified
    cls_second,         \* how its normalized form was classified
    cmp_pc,             \* two price lists put side by side: "idle", "called", "quoted"
    cmp_prices,         \* the two lists of validated prices
    cmp_quotes,         \* the quotes aggregate_prices builds from them
    split_pc,           \* _get_split_strategy: "idle", "loop", "returned"
    split_args,         \* the pair the DEX quotes were fetched for and the amount
    sorted_dexs,        \* the entries of sorted_dexs the for loop has yet to visit
    splits,             \* the local list splits
    remaining,          \* the local remaining
    upd_pc,             \* update_all_models: "idle", "loop", "completed", "raised"
    active_pairs,       \* the local active_pairs
    upd_index,          \* position in active_pairs of the pair the loop takes next
    update_summary,     \* the local update_summary
    upd_health          \* the health report of the pair checked last

optVars == <<settlement_paths, opt_call, opt_args, opt_result, opt_low_seen>>

aggVars ==
    <<agg_pc, agg_symbol, agg_source, prices, source_results, agg_result, agg_output,
      agg_waited>>

predVars ==
    <<pred_pc, pred_args, pred_result, realtime_latest, realtime_oracle,
      exchange_rates, models, model_output, price_std, predictor, realtime_requests>>

clsVars == <<cls_pc, cls_pair, cls_first, cls_second>>

cmpVars == <<cmp_pc, cmp_prices, cmp_quotes>>

cacheVars == <<opx_pc, opx_args, opx_result, opx_failed, cache_enabled, redis_store>>

splitVars == <<split_pc, split_args, sorted_dexs, splits, remaining>>

updVars == <<upd_pc, active_pairs, upd_index, update_summary, upd_health>>

vars == <<optVars, aggVars, predVars, cacheVars, clsVars, cmpVars, splitVars, updVars>>

None == [none |-> TRUE]

----------------------------------------------------------------------------
(* Exact rational arithmetic *)

Abs(x) == IF x < 0 THEN -x ELSE x

RECURSIVE GCD(_, _)
GCD(a, b) == IF b = 0 THEN a ELSE GCD(b, a % b)

Rat(n, d) ==
    LET g == GCD(Abs(n), d)
    IN  [n |-> n \div g, d |-> d \div g]

RatInt(k) == [n |-> k, d |-> 1]

RatAdd(a, b) ==
    LET g == GCD(a.d, b.d)
    IN  Rat(a.n * (b.d \div g) + b.n * (a.d \div g), (a.d \div g) * b.d)

RatNeg(a) == [n |-> -a.n, d |-> a.d]

RatSub(a, b) == RatAdd(a, RatNeg(b))

RatMul(a, b) ==
    LET g1 == GCD(Abs(a.n), b.d)
        g2 == GCD(Abs(b.n), a.d)
    IN  IF a.n = 0 \/ b.n = 0 THEN RatInt(0)
        ELSE Rat((a.n \div g1) * (b.n \div g2), (a.d \div g2) * (b.d \div g1))

\* a / b for b > 0
RatDiv(a, b) == RatMul(a, [n |-> b.d, d |-> b.n])

RatLT(a, b) ==
    LET g == GCD(a.d, b.d)
    IN  a.n * (b.d \div g) < b.n * (a.d \div g)

RatLE(a, b) == ~RatLT(b, a)

RatMin(a, b) == IF RatLT(b, a) THEN b ELSE a

RatMax(a, b) == IF RatLT(a, b) THEN b ELSE a

RatAbs(a) == [n |-> Abs(a.n), d |-> a.d]

\* Python round(x, k) for x >= 0, scale = 10^k: the nearest multiples of
\* 1/scale (both neighbours when x is exactly half-way between them).
Round(x, scale) ==
    LET g   == GCD(scale, x.d)
        num == x.n * (scale \div g)
        den == x.d \div g
        q   == num \div den
        r   == num % den
    IN  IF den = 1 THEN {x}
        ELSE IF 2 * r < den THEN {Rat(q, scale)}
        ELSE IF 2 * r > den THEN {Rat(q + 1, scale)}
        ELSE {Rat(q, scale), Rat(q + 1, scale)}

\* float('inf')
Inf == [n |-> 1, d |-> 0]

----------------------------------------------------------------------------
(* Strings as character sequences: str.replace, str.split, substring test *)

RECURSIVE Replace(_, _, _)
Replace(s, old, new) ==
    IF Len(s) < Len(old) THEN s
    ELSE IF SubSeq(s, 1, Len(old)) = old
         THEN new \o Replace(SubSeq(s, Len(old) + 1, Len(s)), old, new)
         ELSE <<Head(s)>> \o Replace(Tail(s), old, new)

Contains(s, sub) ==
    \E i \in 1..(Len(s) - Len(sub) + 1) : SubSeq(s, i, i + Len(sub) - 1) = sub

\* s.split(c) for a one-character separator c
RECURSIVE SplitFrom(_, _, _)
SplitFrom(s, c, cur) ==
    IF s = <<>> THEN <<cur>>
    ELSE IF Head(s) = c THEN <<cur>> \o SplitFrom(Tail(s), c, <<>>)
    ELSE SplitFrom(Tail(s), c, Append(cur, Head(s)))

Split(s, c) == SplitFrom(s, c, <<>>)

InList(x, list) == \E i \in 1..Len(list) : list[i] = x

----------------------------------------------------------------------------
(* Pair strings used as inputs *)

USDT == <<"U", "S", "D", "T">>
USDC == <<"U", "S", "D", "C">>
DAI == <<"D", "A", "I">>
BUSD == <<"B", "U", "S", "D">>
USDD == <<"U", "S", "D", "D">>
USD == <<"U", "S", "D">>
BTC == <<"B", "T", "C">>
ETH == <<"E", "T", "H">>
WBTC == <<"W", "B", "T", "C">>
WETH == <<"W", "E", "T", "H">>
SOL == <<"S", "O", "L">>
ADA == <<"A", "D", "A">>
BNB == <<"B", "N", "B">>
MATIC == <<"M", "A", "T", "I", "C">>
AVAX == <<"A", "V", "A", "X">>
SHIB == <<"S", "H", "I", "B">>
EUR == <<"E", "U", "R">>
GBP == <<"G", "B", "P">>
CNY == <<"C", "N", "Y">>
JPY == <<"J", "P", "Y">>
KRW == <<"K", "R", "W">>
HKD == <<"H", "K", "D">>
SGD == <<"S", "G", "D">>
AUD == <<"A", "U", "D">>
CAD == <<"C", "A", "D">>

Pair(a, b) == a \o <<"/">> \o b

----------------------------------------------------------------------------
(* oracle/dex_path_optimizer.py: PathOptimizer *)

\* self.settlement_paths as built by __init__ (a dict: declaration order kept)
InitialSettlementPaths ==
    << [id |-> "fxpool_direct", name |-> "FXPool Direct Swap", protocol |-> "FXPool",
        base_cost_pct |-> Rat(6, 1000), base_time_seconds |-> 12,
        reliability |-> Rat(98, 100),
        min_liquidity |-> RatInt(100), max_liquidity |-> RatInt(1000000),
        risk_level |-> "low", best_for |-> "general"],
       [id |-> "curve_finance", name |-> "Curve Finance", protocol |-> "Curve",
        base_cost_pct |-> Rat(4, 10000), base_time_seconds |-> 18,
        reliability |-> Rat(99, 100),
        min_liquidity |-> RatInt(10), max_liquidity |-> RatInt(10000000),
        risk_level |-> "low", best_for |-> "stablecoin"],
       [id |-> "uniswap_v3", name |-> "Uniswap V3", protocol |-> "Uniswap V3",
        base_cost_pct |-> Rat(3, 1000), base_time_seconds |-> 15,
        reliability |-> Rat(95, 100),
        min_liquidity |-> RatInt(50), max_liquidity |-> RatInt(5000000),
        risk_level |-> "low", best_for |-> "crypto"],
       [id |-> "l2_direct", name |-> "Direct L2 Settlement", protocol |-> "OP-Stack",
        base_cost_pct |-> Rat(6, 1000), base_time_seconds |-> 10,
        reliability |-> Rat(99, 100),
        min_liquidity |-> RatInt(1), max_liquidity |-> RatInt(1000),
        risk_level |-> "low", best_for |-> "small_amount"],
       [id |-> "zk_batched", name |-> "Batched zk-Relay", protocol |-> "zkSync Era",
        base_cost_pct |-> Rat(8, 1000), base_time_seconds |-> 45,
        reliability |-> Rat(995, 1000),
        min_liquidity |-> RatInt(10000), max_liquidity |-> Inf,
        risk_level |-> "very_low", best_for |-> "large_amount"],
       [id |-> "optimistic", name |-> "Optimistic Settlement", protocol |-> "Optimism",
        base_cost_pct |-> Rat(65, 10000), base_time_seconds |-> 25,
        reliability |-> Rat(97, 100),
        min_liquidity |-> RatInt(500), max_liquidity |-> RatInt(50000),
        risk_level |-> "medium", best_for |-> "medium_amount"] >>

\* token_a, token_b = pair.split('/') raises unless there are exactly two parts
is_stablecoin_pair(pair) ==
    LET stablecoins == <<USDC, USDT, DAI, BUSD, USDD>>
        parts == Split(pair, "/")
    IN  IF Len(parts) # 2 THEN FALSE
        ELSE InList(parts[1], stablecoins) /\ InList(parts[2], stablecoins)

is_crypto_pair(pair) ==
    LET cryptos == <<BTC, ETH, SOL, ADA, BNB, MATIC, AVAX>>
        stablecoins == <<USDC, USDT, DAI, BUSD>>
        parts == Split(pair, "/")
    IN  IF Len(parts) # 2 THEN FALSE
        ELSE \/ InList(parts[1], cryptos) /\ InList(parts[2], stablecoins)
             \/ InList(parts[2], cryptos) /\ InList(parts[1], stablecoins)

\* weights chosen by order amount (before the confidence adjustment)
BaseWeights ==
    [cost |-> Rat(4, 10), speed |-> Rat(3, 10), reliability |-> Rat(2, 10),
     liquidity |-> Rat(1, 10)]

\* mutant: the large-order and small-order weight sets exchanged
AmountWeightsExchanged(amount) ==
    IF RatLT(RatInt(10000), amount)
    THEN [cost |-> Rat(3, 10), speed |-> Rat(5, 10), reliability |-> Rat(1, 10),
          liquidity |-> Rat(1, 10)]
    ELSE IF RatLT(amount, RatInt(1000))
    THEN [cost |-> Rat(2, 10), speed |-> Rat(1, 10), reliability |-> Rat(5, 10),
          liquidity |-> Rat(2, 10)]
    ELSE BaseWeights

AmountWeights(amount) ==
    IF RatLT(RatInt(10000), amount)
    THEN [cost |-> Rat(2, 10), speed |-> Rat(1, 10), reliability |-> Rat(5, 10),
          liquidity |-> Rat(2, 10)]
    ELSE IF RatLT(amount, RatInt(1000))
    THEN [cost |-> Rat(3, 10), speed |-> Rat(5, 10), reliability |-> Rat(1, 10),
          liquidity |-> Rat(1, 10)]
    ELSE BaseWeights

\* mutant: the low-confidence adjustment also applied at confidence 0.8
ConfidenceAdjustedInclusive(weights, confidence) ==
    IF RatLE(confidence, Rat(8, 10))
    THEN [weights EXCEPT !.reliability = RatAdd(@, Rat(2, 10)),
                         !.cost = RatSub(@, Rat(1, 10)),
                         !.speed = RatSub(@, Rat(1, 10))]
    ELSE weights

\* if confidence < 0.8: reliability += 0.2, cost -= 0.1, speed -= 0.1
ConfidenceAdjusted(weights, confidence) ==
    IF RatLT(confidence, Rat(8, 10))
    THEN [weights EXCEPT !.reliability = RatAdd(@, Rat(2, 10)),
                         !.cost = RatSub(@, Rat(1, 10)),
                         !.speed = RatSub(@, Rat(1, 10))]
    ELSE weights

\* mutant: no category bonus
TypeMatchScoreFlat(path_info, pair_type) == RatInt(1)

TypeMatchScore(path_info, pair_type) ==
    IF pair_type = "stablecoin" /\ path_info.best_for = "stablecoin" THEN Rat(12, 10)
    ELSE IF pair_type = "crypto" /\ path_info.best_for = "crypto" THEN Rat(12, 10)
    ELSE RatInt(1)

LiquidityScore(path_info, amount) ==
    IF RatLT(amount, path_info.min_liquidity) THEN Rat(5, 10)
    ELSE IF path_info.max_liquidity # Inf /\ RatLT(path_info.max_liquidity, amount)
         THEN Rat(3, 10)
    ELSE RatInt(1)

\* the weighted sum of the four sub-scores, times the type-match factor
WeightedScore(path_info, amount, pair_type, weights) ==
    LET cost_score == RatSub(RatInt(1),
                             RatMin(RatDiv(path_info.base_cost_pct, Rat(1, 100)), RatInt(1)))
        speed_score == RatSub(RatInt(1),
                              RatMin(Rat(path_info.base_time_seconds, 60), RatInt(1)))
        reliability_score == path_info.reliability
        liquidity_score == LiquidityScore(path_info, amount)
    IN  RatMul(RatAdd(RatAdd(RatMul(weights.cost, cost_score),
                             RatMul(weights.speed, speed_score)),
                      RatAdd(RatMul(weights.reliability, reliability_score),
                             RatMul(weights.liquidity, liquidity_score))),
               TypeMatchScore(path_info, pair_type))

calculate_path_score(path_info, amount, confidence, pair_type) ==
    WeightedScore(path_info, amount, pair_type,
                  ConfidenceAdjusted(AmountWeights(amount), confidence))

\* list.sort(reverse=True, key=score): descending and stable (entries with
\* equal scores keep their original relative order)
RECURSIVE InsertDesc(_, _)
InsertDesc(e, s) ==
    IF s = <<>> THEN <<e>>
    ELSE IF RatLT(Head(s).score, e.score) THEN <<e>> \o s
    ELSE <<Head(s)>> \o InsertDesc(e, Tail(s))

RECURSIVE SortDescFrom(_, _)
SortDescFrom(list, acc) ==
    IF list = <<>> THEN acc
    ELSE SortDescFrom(Tail(list), InsertDesc(Head(list), acc))

\* mutant: reverse=True forgotten (ascending order)
RECURSIVE InsertAsc(_, _)
InsertAsc(e, s) ==
    IF s = <<>> THEN <<e>>
    ELSE IF RatLT(e.score, Head(s).score) THEN <<e>> \o s
    ELSE <<Head(s)>> \o InsertAsc(e, Tail(s))

RECURSIVE SortAscFrom(_, _)
SortAscFrom(list, acc) ==
    IF list = <<>> THEN acc
    ELSE SortAscFrom(Tail(list), InsertAsc(Head(list), acc))

SortAsc(list) == SortAscFrom(list, <<>>)

SortDesc(list) == SortDescFrom(list, <<>>)

PairType(pair) ==
    IF is_stablecoin_pair(pair) THEN "stablecoin"
    ELSE IF is_crypto_pair(pair) THEN "crypto"
    ELSE "other"

ScoredPaths(paths, amount, confidence, pair_type) ==
    [i \in 1..Len(paths) |->
        [score |-> calculate_path_score(paths[i], amount, confidence, pair_type),
         path_id |-> paths[i].id,
         path_info |-> paths[i]]]

AmountNote(amount) ==
    IF RatLT(RatInt(10000), amount) THEN "large_transaction"
    ELSE IF RatLT(amount, RatInt(1000)) THEN "small_amount"
    ELSE "balanced"

\* int(adjusted_time * 1.5) when amount > 50000
AdjustedTime(base_time_seconds, amount) ==
    IF RatLT(RatInt(50000), amount) THEN (base_time_seconds * 3) \div 2
    ELSE base_time_seconds

\* get_optimal_path from the sorted scored paths and the rounded score to report
OptimalPathResult(scored_paths, pair, amount, confidence, pair_type, rounded) ==
    [name |-> scored_paths[1].path_info.name,
     protocol |-> scored_paths[1].path_info.protocol,
     estimated_cost_pct |-> scored_paths[1].path_info.base_cost_pct,
     settlement_time_seconds |->
         AdjustedTime(scored_paths[1].path_info.base_time_seconds, amount),
     reliability |-> scored_paths[1].path_info.reliability,
     risk_level |-> scored_paths[1].path_info.risk_level,
     reason |-> [amount_note |-> AmountNote(amount),
                 low_confidence_note |-> RatLT(confidence, Rat(8, 10))],
     \* scored_paths[1:4]
     alternative_paths |->
         [i \in 1..((IF Len(scored_paths) < 4 THEN Len(scored_paths) ELSE 4) - 1) |->
             scored_paths[i + 1].path_info.name],
     optimization_factors |-> [pair |-> pair, pair_type |-> pair_type,
                               amount_usd |-> amount, confidence |-> confidence,
                               score |-> rounded]]

\* mutant: the 1.5x time adjustment written into best_path, which is the
\* catalog's own dict
PathsAfterOptimalPathAdjusted(paths, best_path_id, amount) ==
    [i \in 1..Len(paths) |->
        IF paths[i].id = best_path_id
        THEN [paths[i] EXCEPT !.base_time_seconds = AdjustedTime(@, amount)]
        ELSE paths[i]]

\* self.settlement_paths after get_optimal_path: best_path is only read,
\* the time adjustment is made on the local adjusted_time
PathsAfterOptimalPath(paths, best_path_id, amount) == paths

\* Inputs of the optimizer calls
OptPairs ==
    {Pair(USDC, USDT), Pair(BUSD, USDT), Pair(BTC, USDT), Pair(WBTC, USDT),
     Pair(BTC, ETH), Pair(EUR, USD), ADA \o USDT}

\* one amount in and on each edge of every amount bucket of the catalog
OptAmounts ==
    {Rat(1, 2), RatInt(1), RatInt(5), RatInt(10), RatInt(30), RatInt(50),
     RatInt(75), RatInt(100), RatInt(500), RatInt(999), RatInt(1000),
     RatInt(5000), RatInt(10000), RatInt(10001), RatInt(50000), RatInt(50001),
     RatInt(1000000), RatInt(1000001), RatInt(5000000), RatInt(5000001),
     RatInt(10000000), RatInt(10000001)}

OptConfidences ==
    {RatInt(0), Rat(1, 2), Rat(79, 100), Rat(8, 10), Rat(9, 10), RatInt(1)}

\* a caller invokes optimizer.get_optimal_path(pair, amount, confidence)
OptCall(pair, amount, confidence) ==
    /\ opt_call = "idle"
    /\ opt_call' = "get_optimal_path"
    /\ opt_args' = [pair |-> pair, amount |-> amount, confidence |-> confidence]
    /\ opt_result' = None
    /\ UNCHANGED <<settlement_paths, opt_low_seen, aggVars, predVars, cacheVars, clsVars, cmpVars, splitVars, updVars>>

get_optimal_path ==
    /\ opt_call = "get_optimal_path"
    /\ \E pair_type \in {PairType(opt_args.pair)} :
       \E scored_paths \in {SortDesc(ScoredPaths(settlement_paths, opt_args.amount,
                                                 opt_args.confidence, pair_type))} :
       \E rounded \in Round(scored_paths[1].score, 1000) :
          /\ opt_result' = OptimalPathResult(scored_paths, opt_args.pair, opt_args.amount,
                                             opt_args.confidence, pair_type, rounded)
          /\ settlement_paths' = PathsAfterOptimalPath(settlement_paths,
                                                       scored_paths[1].path_id,
                                                       opt_args.amount)
    /\ opt_call' = "returned"
    /\ opt_low_seen' = (opt_low_seen \/ RatLT(opt_args.confidence, Rat(8, 10)))
    /\ UNCHANGED <<opt_args, aggVars, predVars, cacheVars, clsVars, cmpVars, splitVars, updVars>>

\* the pair types get_optimal_path and get_all_paths_comparison pass on
PairTypes == {"stablecoin", "crypto", "other"}

\* a caller invokes optimizer.calculate_path_score on a catalog entry
OptScoreCall(path_index, amount, confidence, pair_type) ==
    /\ opt_call = "idle"
    /\ opt_call' = "calculate_path_score"
    /\ opt_args' = [path_info |-> settlement_paths[path_index], amount |-> amount,
                    confidence |-> confidence, pair_type |-> pair_type]
    /\ opt_result' = None
    /\ UNCHANGED <<settlement_paths, opt_low_seen, aggVars, predVars, cacheVars, clsVars, cmpVars, splitVars, updVars>>

OptScore ==
    /\ opt_call = "calculate_path_score"
    /\ opt_result' = calculate_path_score(opt_args.path_info, opt_args.amount,
                                          opt_args.confidence, opt_args.pair_type)
    /\ opt_call' = "scored"
    /\ opt_low_seen' = (opt_low_seen \/ RatLT(opt_args.confidence, Rat(8, 10)))
    /\ UNCHANGED <<settlement_paths, opt_args, aggVars, predVars, cacheVars, clsVars, cmpVars, splitVars, updVars>>

\* round(score, 3) of each score of a list: every way the roundings can fall
RECURSIVE RoundEach(_, _)
RoundEach(scores, scale) ==
    IF scores = <<>> THEN {<<>>}
    ELSE {<<r>> \o rest : r \in Round(Head(scores), scale),
                          rest \in RoundEach(Tail(scores), scale)}

\* get_all_paths_comparison from the rounded scores of the catalog paths
PathsComparison(paths, rounded) ==
    SortDesc([i \in 1..Len(paths) |->
                 [name |-> paths[i].name,
                  protocol |-> paths[i].protocol,
                  cost_pct |-> RatMul(paths[i].base_cost_pct, RatInt(100)),
                  time_seconds |-> paths[i].base_time_seconds,
                  reliability |-> RatMul(paths[i].reliability, RatInt(100)),
                  risk_level |-> paths[i].risk_level,
                  score |-> rounded[i],
                  suitable_for |-> paths[i].best_for]])

\* a caller invokes optimizer.get_all_paths_comparison(pair, amount, confidence)
OptCompareCall(pair, amount, confidence) ==
    /\ opt_call = "idle"
    /\ opt_call' = "get_all_paths_comparison"
    /\ opt_args' = [pair |-> pair, amount |-> amount, confidence |-> confidence]
    /\ opt_result' = None
    /\ UNCHANGED <<settlement_paths, opt_low_seen, aggVars, predVars, cacheVars, clsVars, cmpVars, splitVars, updVars>>

get_all_paths_comparison ==
    /\ opt_call = "get_all_paths_comparison"
    /\ \E pair_type \in {IF is_stablecoin_pair(opt_args.pair) THEN "stablecoin"
                         ELSE "crypto"} :
       \E rounded \in RoundEach([i \in 1..Len(settlement_paths) |->
                                    calculate_path_score(settlement_paths[i],
                                        opt_args.amount, opt_args.confidence,
                                        pair_type)], 1000) :
          opt_result' = PathsComparison(settlement_paths, rounded)
    /\ opt_call' = "compared"
    /\ opt_low_seen' = (opt_low_seen \/ RatLT(opt_args.confidence, Rat(8, 10)))
    /\ UNCHANGED <<settlement_paths, opt_args, aggVars, predVars, cacheVars, clsVars, cmpVars, splitVars, updVars>>

\* the caller has consumed the result
OptDone ==
    /\ opt_call \in {"returned", "scored", "compared"}
    /\ opt_call' = "idle"
    /\ opt_args' = None
    /\ opt_result' = None
    /\ UNCHANGED <<settlement_paths, opt_low_seen, aggVars, predVars, cacheVars, clsVars, cmpVars, splitVars, updVars>>

OptInit ==
    /\ settlement_paths = InitialSettlementPaths
    /\ opt_call = "idle"
    /\ opt_args = None
    /\ opt_result = None
    /\ opt_low_seen = FALSE

OptNext ==
    \/ \E pair \in OptPairs, amount \in OptAmounts, confidence \in OptConfidences :
          OptCall(pair, amount, confidence)
    \/ get_optimal_path
    \/ \E path_index \in 1..Len(settlement_paths), amount \in OptAmounts,
          confidence \in OptConfidences, pair_type \in PairTypes :
          OptScoreCall(path_index, amount, confidence, pair_type)
    \/ OptScore
    \/ \E pair \in OptPairs, amount \in OptAmounts, confidence \in OptConfidences :
          OptCompareCall(pair, amount, confidence)
    \/ get_all_paths_comparison
    \/ OptDone

----------------------------------------------------------------------------
(* oracle/realtime_price_fetcher.py: RealtimePriceFetcher *)

\* self.sources, in declaration order
Sources == <<"binance", "coinbase", "coingecko", "okx", "huobi", "kucoin">>

\* self.reference_prices
reference_prices ==
    (Pair(BTC, USDT) :> RatInt(123000)) @@ (Pair(ETH, USDT) :> RatInt(3900)) @@
    (Pair(SOL, USDT) :> RatInt(250)) @@ (Pair(ADA, USDT) :> Rat(95, 100)) @@
    (Pair(BNB, USDT) :> RatInt(1000)) @@ (Pair(EUR, USD) :> Rat(109, 100)) @@
    (Pair(GBP, USD) :> Rat(131, 100)) @@ (Pair(CNY, USD) :> Rat(14, 100))

\* self.max_deviation
max_deviation == Rat(2, 10)

ForexPairs == <<Pair(EUR, USD), Pair(GBP, USD), Pair(CNY, USD)>>

\* What a source's HTTP endpoint answers within requests.get(url, timeout=3):
\* no answer in time, a status other than 200, a body without the expected
\* fields, or a body carrying a price.
Timeout == [kind |-> "timeout"]
HttpError == [kind |-> "http_error"]
BadBody == [kind |-> "bad_body"]
Ok(price) == [kind |-> "ok", price |-> price]

\* the body of every fetch_* after its url is built: float(...) of the price
\* field on status 200, None otherwise (exceptions are logged and swallowed)
Fetched(resp) == IF resp.kind = "ok" THEN resp.price ELSE None

fetch_binance(symbol, resp) ==
    IF InList(symbol, ForexPairs) THEN None ELSE Fetched(resp)

fetch_coinbase(symbol, resp) ==
    LET pair == IF Contains(symbol, USDT)
                THEN Replace(symbol, <<"/">> \o USDT, <<"-">> \o USD)
                ELSE Replace(symbol, <<"/">>, <<"-">>)
    IN  IF ~Contains(symbol, USDT) /\ ~Contains(symbol, <<"/">>) THEN None
        \* base_currency = pair.split('-')[1] raises IndexError, which is caught
        ELSE IF resp.kind = "ok" /\ Len(Split(pair, "-")) < 2 THEN None
        ELSE Fetched(resp)

fetch_coingecko(symbol, resp) ==
    LET coin_map == <<BTC, ETH, SOL, ADA, BNB>>
        base == Split(symbol, "/")[1]
    IN  IF ~InList(base, coin_map) THEN None ELSE Fetched(resp)

fetch_okx(symbol, resp) == Fetched(resp)

fetch_huobi(symbol, resp) == Fetched(resp)

fetch_kucoin(symbol, resp) == Fetched(resp)

FetchFrom(source_name, symbol, resp) ==
    CASE source_name = "binance" -> fetch_binance(symbol, resp)
      [] source_name = "coinbase" -> fetch_coinbase(symbol, resp)
      [] source_name = "coingecko" -> fetch_coingecko(symbol, resp)
      [] source_name = "okx" -> fetch_okx(symbol, resp)
      [] source_name = "huobi" -> fetch_huobi(symbol, resp)
      [] source_name = "kucoin" -> fetch_kucoin(symbol, resp)

\* requests.get(url, timeout=3): the seconds after which a request is given up
FetchTimeout == 3

\* whether fetch_<source_name>(symbol) gets as far as its requests.get
Requests(source_name, symbol) ==
    CASE source_name = "binance" -> ~InList(symbol, ForexPairs)
      [] source_name = "coinbase" -> Contains(symbol, USDT) \/ Contains(symbol, <<"/">>)
      [] source_name = "coingecko" -> InList(Split(symbol, "/")[1], <<BTC, ETH, SOL, ADA, BNB>>)
      [] OTHER -> TRUE

\* the seconds a fetch spends waiting when its request runs into the
\* timeout (a request that is answered is counted as taking no time)
FetchSeconds(source_name, symbol, resp) ==
    IF Requests(source_name, symbol) /\ resp = Timeout THEN FetchTimeout ELSE 0

fetch_forex_rates(symbol) ==
    IF symbol = Pair(EUR, USD) THEN Rat(109, 100)
    ELSE IF symbol = Pair(GBP, USD) THEN Rat(131, 100)
    ELSE IF symbol = Pair(CNY, USD) THEN Rat(14, 100)
    ELSE None

\* mutant: the deviation test dropped
validate_price_any(symbol, price) == TRUE

validate_price(symbol, price) ==
    IF symbol \notin DOMAIN reference_prices THEN TRUE
    ELSE LET reference == reference_prices[symbol]
             deviation == RatDiv(RatAbs(RatSub(price, reference)), reference)
         IN  ~RatLT(max_deviation, deviation)

\* sorted(prices)
RECURSIVE InsertSorted(_, _)
InsertSorted(x, s) ==
    IF s = <<>> THEN <<x>>
    ELSE IF RatLT(x, Head(s)) THEN <<x>> \o s
    ELSE <<Head(s)>> \o InsertSorted(x, Tail(s))

RECURSIVE Sorted(_)
Sorted(list) == IF list = <<>> THEN <<>> ELSE InsertSorted(Head(list), Sorted(Tail(list)))

\* statistics.median of a non-empty list
Median(list) ==
    LET s == Sorted(list)
        n == Len(s)
    IN  IF n % 2 = 1 THEN s[(n + 1) \div 2]
        ELSE RatDiv(RatAdd(s[n \div 2], s[n \div 2 + 1]), RatInt(2))

\* max(prices), min(prices)
MaxOf(list) == Sorted(list)[Len(list)]

MinOf(list) == Sorted(list)[1]

\* mutant: only the lowest price dropped (prices_sorted[1:])
AggregatedPriceKeepsMax(ps) ==
    IF Len(ps) >= 3 THEN Median(SubSeq(Sorted(ps), 2, Len(ps)))
    ELSE IF Len(ps) >= 2 THEN Median(ps)
    ELSE ps[1]

\* "aggregated price (median after removing outliers)"
AggregatedPrice(ps) ==
    IF Len(ps) >= 3 THEN Median(SubSeq(Sorted(ps), 2, Len(ps) - 1))
    ELSE IF Len(ps) >= 2 THEN Median(ps)
    ELSE ps[1]

Spread(ps, aggregated_price) ==
    IF Len(ps) > 1 THEN RatDiv(RatSub(MaxOf(ps), MinOf(ps)), aggregated_price)
    ELSE Rat(1, 1000)

\* mutant: the lower clamp forgotten
ConfidenceUnclamped(ps, spread) ==
    IF Len(ps) > 1 THEN RatMax(RatInt(0), RatMin(RatInt(1), RatSub(RatInt(1), RatMul(spread, RatInt(10)))))
    ELSE Rat(7, 10)

\* mutant: a single source counted as certain
ConfidenceSingleSure(ps, spread) ==
    IF Len(ps) > 1
    THEN RatMax(Rat(5, 10), RatMin(RatInt(1), RatSub(RatInt(1), RatMul(spread, RatInt(10)))))
    ELSE RatInt(1)

Confidence(ps, spread) ==
    IF Len(ps) > 1
    THEN RatMax(Rat(5, 10), RatMin(RatInt(1), RatSub(RatInt(1), RatMul(spread, RatInt(10)))))
    ELSE Rat(7, 10)

\* mutant: no fallback to the reference price
UseReferenceNever(symbol, ps) == FALSE

\* "if not prices and symbol in self.reference_prices"
UseReference(symbol, ps) == ps = <<>> /\ symbol \in DOMAIN reference_prices

\* random.uniform(-0.005, 0.005): the two ends and the middle
Variations == {Rat(-5, 1000), RatInt(0), Rat(5, 1000)}

\* the environment: number of price levels a source can answer next to the
\* reference price (the band edges and out-of-band prices are always there)
MaxTicks == 2

\* the prices a source endpoint can answer for a symbol
Levels(symbol) ==
    IF symbol = Pair(ADA, USDT)
    THEN {Rat(95 + k, 100) : k \in 0..(MaxTicks - 1)}
            \cup {Rat(76, 100), Rat(114, 100), Rat(75, 100), Rat(115, 100), RatInt(0)}
    ELSE {Rat(1000 + k, 100000000) : k \in 1..MaxTicks}
            \cup {Rat(2000, 100000000), RatInt(0)}

Responses(symbol) == {Timeout, HttpError, BadBody} \cup {Ok(p) : p \in Levels(symbol)}

\* symbols main is run with: a pair with a reference price, a forex pair, a
\* pair without reference price, a string without '/'
AggSymbols == {Pair(ADA, USDT), Pair(EUR, USD), Pair(SHIB, USDT), SHIB \o USDT}

\* main: fetcher.aggregate_prices(sys.argv[1])
AggCall(symbol) ==
    /\ agg_pc = "idle"
    /\ agg_pc' = "entry"
    /\ agg_symbol' = symbol
    /\ UNCHANGED <<agg_source, prices, source_results, agg_result, agg_output, agg_waited>>
    /\ UNCHANGED <<optVars, predVars, cacheVars, clsVars, cmpVars, splitVars, updVars>>

\* aggregate_prices up to the loop: the forex shortcut
aggregate_prices_begin ==
    /\ agg_pc = "entry"
    /\ IF InList(agg_symbol, ForexPairs) /\ fetch_forex_rates(agg_symbol) # None
       THEN /\ agg_result' = [pair |-> agg_symbol,
                              aggregated_price |-> fetch_forex_rates(agg_symbol),
                              source_count |-> 1,
                              sources |-> {[source |-> "forex",
                                            price |-> fetch_forex_rates(agg_symbol)]},
                              confidence |-> Rat(99, 100),
                              spread |-> Rat(1, 1000)]
            /\ agg_pc' = "returned"
            /\ UNCHANGED agg_source
       ELSE /\ agg_pc' = "collecting"
            /\ agg_source' = 1
            /\ UNCHANGED agg_result
    /\ UNCHANGED <<agg_symbol, prices, source_results, agg_output, agg_waited>>
    /\ UNCHANGED <<optVars, predVars, cacheVars, clsVars, cmpVars, splitVars, updVars>>

\* one turn of "for source_name, fetch_func in self.sources.items()"
aggregate_prices_fetch ==
    /\ agg_pc = "collecting"
    /\ agg_source <= Len(Sources)
    /\ \E resp \in Responses(agg_symbol) :
       \E price \in {FetchFrom(Sources[agg_source], agg_symbol, resp)} :
          /\ IF price # None /\ RatLT(RatInt(0), price) /\ validate_price(agg_symbol, price)
             THEN /\ prices' = Append(prices, price)
                  /\ source_results' = source_results \cup
                                          {[source |-> Sources[agg_source], price |-> price]}
             ELSE UNCHANGED <<prices, source_results>>
          /\ agg_waited' = agg_waited + FetchSeconds(Sources[agg_source], agg_symbol, resp)
    /\ agg_source' = agg_source + 1
    /\ UNCHANGED <<agg_pc, agg_symbol, agg_result, agg_output>>
    /\ UNCHANGED <<optVars, predVars, cacheVars, clsVars, cmpVars, splitVars, updVars>>

\* the quote built from the collected prices
Quote(symbol, ps, results, aggregated_price, confidence, spread) ==
    [pair |-> symbol,
     aggregated_price |-> aggregated_price,
     source_count |-> Len(ps),
     sources |-> results,
     confidence |-> confidence,
     spread |-> spread,
     reference_price |-> IF symbol \in DOMAIN reference_prices
                         THEN reference_prices[symbol] ELSE None,
     is_simulated |-> \E r \in results : r.source = "reference"]

\* aggregate_prices after the loop
aggregate_prices_finish ==
    /\ agg_pc = "collecting"
    /\ agg_source > Len(Sources)
    /\ \E variation \in Variations :
       \E simulated \in {UseReference(agg_symbol, prices)} :
       \E ps \in {IF simulated
                  THEN <<RatMul(reference_prices[agg_symbol], RatAdd(RatInt(1), variation))>>
                  ELSE prices} :
       \E results \in {IF simulated
                       THEN source_results \cup {[source |-> "reference", price |-> ps[1]]}
                       ELSE source_results} :
          /\ prices' = ps
          /\ source_results' = results
          /\ IF ps = <<>>
             THEN agg_result' = None
             ELSE \E aggregated_price \in {AggregatedPrice(ps)} :
                  \E spread \in {Spread(ps, aggregated_price)} :
                  \E confidence \in {Confidence(ps, spread)} :
                  \E rprice \in Round(aggregated_price, 100000000) :
                  \E rconf \in Round(confidence, 1000) :
                  \E rspread \in Round(spread, 10000) :
                     agg_result' = Quote(agg_symbol, ps, results, rprice, rconf, rspread)
    /\ agg_pc' = "returned"
    /\ UNCHANGED <<agg_symbol, agg_source, agg_output, agg_waited>>
    /\ UNCHANGED <<optVars, predVars, cacheVars, clsVars, cmpVars, splitVars, updVars>>

\* main: print the quote, or the error when aggregate_prices returned None
AggPrint ==
    /\ agg_pc = "returned"
    /\ agg_output' = IF agg_result # None THEN agg_result
                     ELSE [error |-> "No price data available", pair |-> agg_symbol]
    /\ agg_pc' = "exited"
    /\ UNCHANGED <<agg_symbol, agg_source, prices, source_results, agg_result, agg_waited>>
    /\ UNCHANGED <<optVars, predVars, cacheVars, clsVars, cmpVars, splitVars, updVars>>

\* the process is gone; the next run starts from scratch
AggExit ==
    /\ agg_pc = "exited"
    /\ agg_pc' = "idle"
    /\ agg_symbol' = None
    /\ agg_source' = 0
    /\ prices' = <<>>
    /\ source_results' = {}
    /\ agg_result' = None
    /\ agg_output' = None
    /\ agg_waited' = 0
    /\ UNCHANGED <<optVars, predVars, cacheVars, clsVars, cmpVars, splitVars, updVars>>

AggNext ==
    \/ \E symbol \in AggSymbols : AggCall(symbol)
    \/ aggregate_prices_begin
    \/ aggregate_prices_fetch
    \/ aggregate_prices_finish
    \/ AggPrint
    \/ AggExit

AggIdle ==
    /\ agg_pc = "idle"
    /\ agg_symbol = None
    /\ agg_source = 0
    /\ prices = <<>>
    /\ source_results = {}
    /\ agg_result = None
    /\ agg_output = None
    /\ agg_waited = 0

----------------------------------------------------------------------------
(* models/oracle_predictor.py: OraclePredictor                              *)
(* models/aetherpay_predictor.py: AetherPayPredictor                        *)
(* Result dicts are records; their 'timestamp' entry is left out.           *)

\* pair.replace('WETH', 'ETH').replace('WBTC', 'BTC')
MapWrapped(pair) == Replace(Replace(pair, WETH, ETH), WBTC, BTC)

\* What GET localhost:3001/realtime?pair=... answers within timeout=2: the
\* connection fails or times out, a status other than 200, or status 200
\* with a JSON body.
Refused == [kind |-> "refused"]
Status(code) == [kind |-> "status", code |-> code]
Json(data) == [kind |-> "json", data |-> data]

\* model.predict(features) raising (as does anything else in predict's try)
Raises == [raises |-> TRUE]

\* an exception leaving a method of AetherPayPredictor
Raised == [raised |-> TRUE]

Has(dict, key) == key \in DOMAIN dict

\* 'aggregated_price' in data and data['aggregated_price'] > 0
HasLivePrice(response) ==
    /\ response.kind = "json"
    /\ Has(response.data, "aggregated_price")
    /\ RatLT(RatInt(0), response.data.aggregated_price)

\* SELECT ... FROM exchange_rates WHERE pair = ? ORDER BY timestamp DESC:
\* the table is modelled by the latest row of each pair key
Select(key) == {r \in exchange_rates.rows : r.pair = key}

Latest(rows) == CHOOSE r \in rows : TRUE

\* OraclePredictor.get_optimal_settlement_path
get_optimal_settlement_path(pair, predicted_price, confidence) ==
    LET high_liquidity_pairs == <<Pair(BTC, USDT), Pair(ETH, USDT), Pair(BTC, ETH)>>
    IN  IF InList(pair, high_liquidity_pairs)
        THEN IF RatLT(Rat(9, 10), confidence)
             THEN [name |-> "Uniswap V3 Concentrated", protocol |-> "Uniswap V3",
                   estimated_cost_pct |-> Rat(5, 100), settlement_time_seconds |-> 12,
                   reliability |-> Rat(98, 100), risk_level |-> "low",
                   reason |-> "High liquidity pair with concentrated liquidity",
                   alternative_paths |-> <<"FXPool", "SushiSwap">>]
             ELSE [name |-> "FXPool Aggregated", protocol |-> "FXPool",
                   estimated_cost_pct |-> Rat(6, 100), settlement_time_seconds |-> 15,
                   reliability |-> Rat(95, 100), risk_level |-> "medium",
                   reason |-> "Aggregated liquidity for better execution",
                   alternative_paths |-> <<"1inch Router", "Paraswap">>]
        ELSE [name |-> "Smart Order Router", protocol |-> "Multi-DEX",
              estimated_cost_pct |-> Rat(8, 100), settlement_time_seconds |-> 25,
              reliability |-> Rat(92, 100), risk_level |-> "medium",
              reason |-> "Split order across multiple DEXs for best price",
              alternative_paths |-> <<"Direct FXPool", "OTC Desk">>]

\* max(0.7, min(1.0, 1.0 - (price_std / current_price) if current_price > 0 else 0.7))
FallbackConfidence(current_price) ==
    RatMax(Rat(7, 10),
           RatMin(RatInt(1),
                  IF RatLT(RatInt(0), current_price)
                  THEN RatSub(RatInt(1), RatDiv(price_std, current_price))
                  ELSE Rat(7, 10)))

\* OraclePredictor.predict
predict(pair, confidence_threshold) ==
    LET original_pair == pair
        mapped == MapWrapped(pair)
        stable_pairs == <<Pair(USDC, USDT), Pair(USDT, USDC), Pair(DAI, USDT),
                          Pair(USDT, DAI), Pair(USDC, DAI), Pair(DAI, USDC)>>
        df == Select(mapped)
        failed == [error |-> "prediction_failed", pair |-> mapped,
                   message |-> "str(e)"]
    IN  IF InList(mapped, stable_pairs)
        THEN [pair |-> mapped, predicted_price |-> RatInt(1),
              current_price |-> RatInt(1), price_change |-> RatInt(0),
              confidence |-> RatInt(1), prediction_horizon |-> "30s",
              meets_threshold |-> TRUE,
              optimal_settlement_path |->
                  [name |-> "Curve Finance", protocol |-> "Curve",
                   estimated_cost_pct |-> Rat(4, 100), settlement_time_seconds |-> 18,
                   reliability |-> Rat(99, 100), risk_level |-> "low",
                   reason |-> "Best for stablecoin swaps with minimal slippage",
                   alternative_paths |-> <<"FXPool Direct", "Uniswap V3">>]]
        ELSE IF mapped \notin models
        THEN [error |-> "prediction_unavailable", pair |-> original_pair,
              message |-> "No AI model available for this trading pair"]
        ELSE IF ~exchange_rates.ok THEN failed
        ELSE IF df = {}
        THEN [error |-> "no_data", pair |-> mapped,
              message |-> "No historical data available"]
        ELSE IF model_output = Raises THEN failed
        ELSE
            LET prediction == model_output
                db_price == Latest(df).price
                current_price == IF HasLivePrice(realtime_oracle)
                                 THEN realtime_oracle.data.aggregated_price
                                 ELSE db_price
                confidence ==
                    IF realtime_oracle.kind = "json"
                    THEN IF Has(realtime_oracle.data, "confidence")
                         THEN realtime_oracle.data.confidence
                         ELSE Rat(7, 10)
                    ELSE FallbackConfidence(db_price)
            IN  [pair |-> original_pair, predicted_price |-> prediction,
                 current_price |-> current_price,
                 price_change |-> RatSub(prediction, current_price),
                 confidence |-> confidence, prediction_horizon |-> "30s",
                 meets_threshold |-> RatLE(confidence_threshold, confidence),
                 optimal_settlement_path |->
                     get_optimal_settlement_path(mapped, prediction, confidence)]

\* AetherPayPredictor.model_quality
model_quality ==
    (Pair(BTC, USDT) :> Rat(618, 1000)) @@ (Pair(ETH, USDT) :> Rat(135, 1000)) @@
    (Pair(SOL, USDT) :> Rat(4, 10)) @@ (Pair(ADA, USDT) :> Rat(4, 10)) @@
    (Pair(BNB, USDT) :> Rat(4, 10))

\* AetherPayPredictor.stable_pairs
stable_pairs ==
    <<Pair(USDC, USDT), Pair(USDT, USDC), Pair(DAI, USDT),
      Pair(USDT, DAI), Pair(DAI, USDC), Pair(USDC, DAI)>>

\* AetherPayPredictor.fiat_pairs
fiat_pairs ==
    <<Pair(CNY, USD), Pair(EUR, USD), Pair(JPY, USD), Pair(GBP, USD), Pair(KRW, USD),
      Pair(HKD, USD), Pair(SGD, USD), Pair(AUD, USD), Pair(CAD, USD)>>

\* AetherPayPredictor._get_latest_price: the live service, then the table
\* (keyed by the pair with '/' replaced by '_'), then the default prices
_get_latest_price(pair) ==
    LET formatted_pair == Replace(pair, <<"/">>, <<"_">>)
        result == Select(formatted_pair)
        default_prices ==
            (Pair(BTC, USDT) :> RatInt(65000)) @@ (Pair(ETH, USDT) :> RatInt(3500)) @@
            (Pair(SOL, USDT) :> RatInt(120)) @@ (Pair(ADA, USDT) :> Rat(5, 10)) @@
            (Pair(BNB, USDT) :> RatInt(600))
    IN  IF HasLivePrice(realtime_latest)
        THEN realtime_latest.data.aggregated_price
        ELSE IF /\ exchange_rates.ok
                /\ result # {}
                /\ RatLT(RatInt(0), Latest(result).price)
        THEN Latest(result).price
        ELSE IF pair \in DOMAIN default_prices THEN default_prices[pair]
        ELSE RatInt(1)

\* AetherPayPredictor._get_settlement_path_by_amount; comparing an amount
\* that is not a number raises TypeError.  The amount and confidence the
\* code formats into 'reason' are left out of it.
_get_settlement_path_by_amount(pair, amount, confidence) ==
    IF amount = None THEN Raised
    ELSE IF RatLT(amount, RatInt(1000)) /\ RatLT(Rat(9, 10), confidence)
    THEN [name |-> "Direct L2 Settlement", protocol |-> "OP-Stack",
          estimated_cost_pct |-> Rat(6, 10), settlement_time_seconds |-> 15,
          reliability |-> Rat(99, 100), risk_level |-> "low",
          reason |-> "Small amount - prioritize speed",
          alternative_paths |-> <<"Lightning Network", "State Channel">>]
    ELSE IF RatLT(RatInt(10000), amount) \/ RatLT(confidence, Rat(8, 10))
    THEN [name |-> "Batched zk-Relay", protocol |-> "zkSync Era",
          estimated_cost_pct |-> Rat(8, 10), settlement_time_seconds |-> 45,
          reliability |-> Rat(995, 1000), risk_level |-> "very_low",
          reason |-> IF RatLT(RatInt(10000), amount)
                     THEN "Large amount - prioritize security"
                     ELSE "Low confidence - prioritize security",
          alternative_paths |-> <<"Multi-sig Escrow", "Time-locked Contract">>]
    ELSE [name |-> "Optimistic Settlement", protocol |-> "Optimism",
          estimated_cost_pct |-> Rat(65, 100), settlement_time_seconds |-> 25,
          reliability |-> Rat(97, 100), risk_level |-> "medium",
          reason |-> "Medium amount - balanced approach",
          alternative_paths |-> <<"Arbitrum One", "Polygon zkEVM">>]

\* AetherPayPredictor._get_safe_settlement_path
_get_safe_settlement_path(amount) ==
    [name |-> "Safe Mode Settlement", protocol |-> "Multi-sig Escrow",
     estimated_cost_pct |-> RatInt(1), settlement_time_seconds |-> 60,
     reliability |-> Rat(99, 100), risk_level |-> "very_low",
     reason |-> "Prediction unavailable - using most secure path",
     alternative_paths |-> <<"Manual Review", "Delayed Settlement">>]

\* AetherPayPredictor._high_quality_prediction
_high_quality_prediction(pair, amount, confidence_threshold) ==
    LET result == predict(pair, confidence_threshold)
    IN  IF Has(result, "error") THEN result
        ELSE
            LET current_price == result.current_price
                predicted_change == RatSub(result.predicted_price, current_price)
                adjusted_change == RatMul(predicted_change, Rat(1, 1000))
                path == _get_settlement_path_by_amount(pair, amount, result.confidence)
            IN  IF path = Raised THEN Raised
                ELSE [result EXCEPT
                         !.prediction_horizon = "30s",
                         !.predicted_price = RatAdd(current_price, adjusted_change),
                         !.price_change = adjusted_change,
                         !.optimal_settlement_path = path]

\* mutant: the conservative route weighting the latest price and the
\* model's price evenly
_low_quality_prediction_even(pair, amount, confidence_threshold) ==
    LET current_price == _get_latest_price(pair)
        ai_result == predict(pair, confidence_threshold)
        predicted_price ==
            IF Has(ai_result, "error") THEN current_price
            ELSE RatAdd(RatMul(current_price, Rat(5, 10)),
                        RatMul(ai_result.predicted_price, Rat(5, 10)))
        confidence ==
            IF Has(ai_result, "error") THEN Rat(7, 10)
            ELSE RatMax(Rat(6, 10), RatMul(ai_result.confidence, Rat(85, 100)))
        path == _get_settlement_path_by_amount(pair, amount, confidence)
    IN  IF path = Raised THEN Raised
        ELSE [pair |-> pair, current_price |-> current_price,
              predicted_price |-> predicted_price,
              price_change |-> RatSub(predicted_price, current_price),
              confidence |-> confidence, prediction_horizon |-> "30s",
              meets_threshold |-> RatLE(confidence_threshold, confidence),
              model_quality |-> "low", strategy |-> "conservative_weighted",
              optimal_settlement_path |-> path]

\* AetherPayPredictor._low_quality_prediction
_low_quality_prediction(pair, amount, confidence_threshold) ==
    LET current_price == _get_latest_price(pair)
        ai_result == predict(pair, confidence_threshold)
        predicted_price ==
            IF Has(ai_result, "error") THEN current_price
            ELSE RatAdd(RatMul(current_price, Rat(7, 10)),
                        RatMul(ai_result.predicted_price, Rat(3, 10)))
        confidence ==
            IF Has(ai_result, "error") THEN Rat(7, 10)
            ELSE RatMax(Rat(6, 10), RatMul(ai_result.confidence, Rat(85, 100)))
        path == _get_settlement_path_by_amount(pair, amount, confidence)
    IN  IF path = Raised THEN Raised
        ELSE [pair |-> pair, current_price |-> current_price,
              predicted_price |-> predicted_price,
              price_change |-> RatSub(predicted_price, current_price),
              confidence |-> confidence, prediction_horizon |-> "30s",
              meets_threshold |-> RatLE(confidence_threshold, confidence),
              model_quality |-> "low", strategy |-> "conservative_weighted",
              optimal_settlement_path |-> path]

\* mutant: the stablecoin answer quotes the latest price instead of 1.0
_stable_coin_response_latest(pair, amount) ==
    [pair |-> pair, current_price |-> _get_latest_price(pair),
     predicted_price |-> _get_latest_price(pair), price_change |-> RatInt(0),
     confidence |-> RatInt(1), prediction_horizon |-> "30s",
     meets_threshold |-> TRUE, model_quality |-> "perfect",
     strategy |-> "hardcoded_stable",
     optimal_settlement_path |-> _get_safe_settlement_path(amount)]

\* AetherPayPredictor._stable_coin_response
_stable_coin_response(pair, amount) ==
    [pair |-> pair, current_price |-> RatInt(1), predicted_price |-> RatInt(1),
     price_change |-> RatInt(0), confidence |-> RatInt(1),
     prediction_horizon |-> "30s", meets_threshold |-> TRUE,
     model_quality |-> "perfect", strategy |-> "hardcoded_stable",
     optimal_settlement_path |->
         [name |-> "Curve Finance", protocol |-> "Curve",
          estimated_cost_pct |-> Rat(4, 100), settlement_time_seconds |-> 18,
          reliability |-> Rat(99, 100), risk_level |-> "low",
          reason |-> "Optimized for stablecoin swaps",
          alternative_paths |-> <<"Uniswap V3", "Balancer">>]]

\* mutant: a fiat pair handled by the conservative blend of the latest
\* rate and the model's output
_fiat_currency_response_blended(pair, amount) ==
    _low_quality_prediction(pair, amount, Rat(95, 100))

\* AetherPayPredictor._fiat_currency_response
_fiat_currency_response(pair, amount) ==
    LET latest == _get_latest_price(pair)
        default_rates ==
            (Pair(CNY, USD) :> Rat(14, 100)) @@ (Pair(EUR, USD) :> Rat(108, 100)) @@
            (Pair(JPY, USD) :> Rat(67, 10000)) @@ (Pair(GBP, USD) :> Rat(126, 100))
        current_price ==
            IF latest = RatInt(0)
            THEN IF pair \in DOMAIN default_rates THEN default_rates[pair]
                 ELSE RatInt(1)
            ELSE latest
    IN  [pair |-> pair, current_price |-> current_price,
         predicted_price |-> current_price, price_change |-> RatInt(0),
         confidence |-> Rat(95, 100), prediction_horizon |-> "30s",
         meets_threshold |-> TRUE, model_quality |-> "no_model",
         strategy |-> "latest_rate_only",
         optimal_settlement_path |->
             [name |-> "Traditional SWIFT", protocol |-> "SWIFT",
              estimated_cost_pct |-> RatInt(3), settlement_time_seconds |-> 86400,
              reliability |-> Rat(99, 100), risk_level |-> "low",
              reason |-> "Fiat currency settlement via traditional rails",
              alternative_paths |-> <<"Wise", "Ripple">>]]

\* the pairs OraclePredictor.predict asks localhost:3001/realtime about:
\* one request, made after model.predict has answered
PredictRequests(pair) ==
    LET mapped == MapWrapped(pair)
    IN  IF Has(predict(pair, RatInt(0)), "error") \/ InList(mapped, stable_pairs)
        THEN <<>>
        ELSE <<mapped>>

\* the pairs predict_30s asks localhost:3001/realtime about, in order:
\* _get_latest_price asks once whenever it is called
RealtimeRequests(self, pair, amount, confidence_threshold) ==
    LET original_pair == pair
        mapped == MapWrapped(pair)
        quality == IF mapped \in DOMAIN self.model_quality THEN self.model_quality[mapped]
                   ELSE Rat(3, 10)
        result == IF RatLT(Rat(5, 10), quality)
                  THEN _high_quality_prediction(mapped, amount, confidence_threshold)
                  ELSE _low_quality_prediction(mapped, amount, confidence_threshold)
        route == IF RatLT(Rat(5, 10), quality) THEN PredictRequests(mapped)
                 ELSE <<mapped>> \o PredictRequests(mapped)
    IN  IF InList(mapped, self.stable_pairs) THEN <<>>
        ELSE IF InList(mapped, self.fiat_pairs) THEN <<original_pair>>
        ELSE IF result = Raised THEN route \o <<mapped>>
        ELSE route

\* AetherPayPredictor.__init__: the tables of a new instance
AetherPayPredictor ==
    [model_quality |-> model_quality, stable_pairs |-> stable_pairs,
     fiat_pairs |-> fiat_pairs]

\* mutant: predict_30s without "result['pair'] = original_pair"
Predict30sKeepsMapped(self, pair, amount, confidence_threshold) ==
    LET original_pair == pair
        mapped == MapWrapped(pair)
        quality == IF mapped \in DOMAIN self.model_quality THEN self.model_quality[mapped]
                   ELSE Rat(3, 10)
        result == IF RatLT(Rat(5, 10), quality)
                  THEN _high_quality_prediction(mapped, amount, confidence_threshold)
                  ELSE _low_quality_prediction(mapped, amount, confidence_threshold)
    IN  IF InList(mapped, self.stable_pairs)
        THEN _stable_coin_response(original_pair, amount)
        ELSE IF InList(mapped, self.fiat_pairs)
        THEN _fiat_currency_response(original_pair, amount)
        ELSE IF result = Raised
        THEN [error |-> "prediction_failed", message |-> "str(e)",
              pair |-> original_pair, fallback_price |-> _get_latest_price(mapped),
              prediction_horizon |-> "30s",
              optimal_settlement_path |-> _get_safe_settlement_path(amount)]
        ELSE result

\* AetherPayPredictor.predict_30s, as a function of the instance, its
\* arguments and what the live service, the table and the model answer
Predict30s(self, pair, amount, confidence_threshold) ==
    LET original_pair == pair
        mapped == MapWrapped(pair)
        quality == IF mapped \in DOMAIN self.model_quality THEN self.model_quality[mapped]
                   ELSE Rat(3, 10)
        result == IF RatLT(Rat(5, 10), quality)
                  THEN _high_quality_prediction(mapped, amount, confidence_threshold)
                  ELSE _low_quality_prediction(mapped, amount, confidence_threshold)
    IN  IF InList(mapped, self.stable_pairs)
        THEN _stable_coin_response(original_pair, amount)
        ELSE IF InList(mapped, self.fiat_pairs)
        THEN _fiat_currency_response(original_pair, amount)
        ELSE IF result = Raised
        THEN [error |-> "prediction_failed", message |-> "str(e)",
              pair |-> original_pair, fallback_price |-> _get_latest_price(mapped),
              prediction_horizon |-> "30s",
              optimal_settlement_path |-> _get_safe_settlement_path(amount)]
        ELSE [result EXCEPT !.pair = original_pair]

\* Requests: pairs of every category, their wrapped spellings, a pair the
\* predictor has no entry for and a string without '/'
PredPairs ==
    {Pair(USDC, USDT), Pair(DAI, USDC), Pair(EUR, USD), Pair(BTC, USDT),
     Pair(WBTC, USDT), Pair(ETH, USDT), Pair(WETH, USDT), Pair(SHIB, USDT),
     BTC \o USDT}

\* amounts on both sides of the 1000 and 10000 edges, an amount that is
\* not positive and an amount that is not a number
PredAmounts == {None, RatInt(0), RatInt(500), RatInt(1000), RatInt(10001)}

\* thresholds in [0, 1] and one above it
PredThresholds == {Rat(6, 10), Rat(95, 100), Rat(99, 100), Rat(3, 2)}

\* answers of the live service
RealtimeResponses(pair) ==
    {Refused, Status(500),
     Json([pair |-> pair]),
     Json([pair |-> pair, aggregated_price |-> RatInt(0), confidence |-> Rat(6, 10)]),
     Json([pair |-> pair, aggregated_price |-> RatInt(3600), confidence |-> Rat(96, 100)])}

\* contents of the table: unreadable, or the latest row stored under the
\* '_' key (fiat_rate_simulator.py) and under the '/' key (data_collector.py)
ExchangeRates(pair) ==
    LET underscore == [pair |-> Replace(pair, <<"/">>, <<"_">>), price |-> RatInt(3500)]
        slash == [pair |-> pair, price |-> RatInt(3400)]
    IN  {[ok |-> FALSE, rows |-> {}]} \cup
        {[ok |-> TRUE, rows |-> rows] : rows \in SUBSET {underscore, slash}}

ModelOutputs == {Raises, RatInt(3700), RatInt(3300)}

PriceStds == {RatInt(0), RatInt(340)}

PredCall(pair, amount, confidence_threshold) ==
    /\ pred_pc = "idle"
    /\ pred_pc' = "predict_30s"
    /\ pred_args' = [pair |-> pair, amount |-> amount,
                     confidence_threshold |-> confidence_threshold]
    /\ realtime_latest' \in RealtimeResponses(MapWrapped(pair))
    /\ realtime_oracle' \in RealtimeResponses(MapWrapped(pair))
    /\ exchange_rates' \in ExchangeRates(MapWrapped(pair))
    /\ models' \in {{}, {MapWrapped(pair)}}
    \* without a loaded model there is nothing to run and no rows are read
    /\ model_output' \in (IF models' = {} THEN {None} ELSE ModelOutputs)
    /\ price_std' \in (IF models' = {} THEN {None} ELSE PriceStds)
    /\ UNCHANGED <<pred_result, predictor, realtime_requests, optVars, aggVars, cacheVars,
                   clsVars, cmpVars, splitVars, updVars>>

predict_30s ==
    /\ pred_pc = "predict_30s"
    /\ pred_result' = Predict30s(predictor, pred_args.pair, pred_args.amount,
                                 pred_args.confidence_threshold)
    /\ realtime_requests' = RealtimeRequests(predictor, pred_args.pair, pred_args.amount,
                                             pred_args.confidence_threshold)
    /\ pred_pc' = "returned"
    /\ UNCHANGED <<pred_args, realtime_latest, realtime_oracle, exchange_rates,
                   models, model_output, price_std, predictor, optVars, aggVars,
                   cacheVars, clsVars, cmpVars, splitVars, updVars>>

PredDone ==
    /\ pred_pc = "returned"
    /\ pred_pc' = "idle"
    /\ pred_args' = None
    /\ pred_result' = None
    /\ realtime_latest' = None
    /\ realtime_oracle' = None
    /\ exchange_rates' = None
    /\ models' = {}
    /\ model_output' = None
    /\ price_std' = None
    /\ realtime_requests' = <<>>
    /\ UNCHANGED <<predictor, optVars, aggVars, cacheVars, clsVars, cmpVars, splitVars, updVars>>

PredIdle ==
    /\ pred_pc = "idle"
    /\ pred_args = None
    /\ pred_result = None
    /\ realtime_latest = None
    /\ realtime_oracle = None
    /\ exchange_rates = None
    /\ models = {}
    /\ model_output = None
    /\ price_std = None
    /\ predictor = AetherPayPredictor
    /\ realtime_requests = <<>>

PredNext ==
    \/ \E pair \in PredPairs, amount \in PredAmounts,
          confidence_threshold \in PredThresholds :
              PredCall(pair, amount, confidence_threshold)
    \/ predict_30s
    \/ PredDone

----------------------------------------------------------------------------
----------------------------------------------------------------------------
(* models/aetherpay_predictor_optimized.py: OptimizedAetherPayPredictor     *)
(* Only the entries of a result that identify what was computed are kept.   *)

\* Python round(x) for x >= 0: to the nearest integer, an exact half to
\* the even neighbour
RoundHalfEven(x) ==
    LET q == x.n \div x.d
        r == x.n % x.d
    IN  IF 2 * r < x.d THEN q
        ELSE IF 2 * r > x.d THEN q + 1
        ELSE IF q % 2 = 0 THEN q ELSE q + 1

\* What one call of the redis client does: it raises (the server is
\* unreachable or times out) or it answers.
CallFails == [kind |-> "fails"]
Answers(value) == [kind |-> "answers", value |-> value]

\* a stored string that json.loads cannot parse
Garbled == [garbled |-> TRUE]

\* OptimizedAetherPayPredictor._get_cache_key
_get_cache_key(pair, amount) ==
    [pair |-> pair,
     rounded_amount |-> RoundHalfEven(RatDiv(amount, RatInt(100))) * 100]

\* mutant: the read of the cache without its try/except
_get_from_cache_unguarded(key, get) ==
    IF ~cache_enabled THEN None
    ELSE IF get = CallFails THEN Raised
    ELSE IF get.value = None THEN None
    ELSE IF get.value = Garbled THEN Raised
    ELSE get.value

\* OptimizedAetherPayPredictor._get_from_cache; get is what
\* redis_client.get(key) does
_get_from_cache(key, get) ==
    IF ~cache_enabled THEN None
    ELSE IF get = CallFails THEN None
    ELSE IF get.value = None THEN None
    ELSE IF get.value = Garbled THEN None
    ELSE get.value

\* OptimizedAetherPayPredictor._save_to_cache: the store after
\* redis_client.setex(key, ttl, json.dumps(data, default=str)), or Raised
_save_to_cache(key, data, setex) ==
    IF ~cache_enabled THEN redis_store
    ELSE IF setex = CallFails THEN redis_store
    ELSE {e \in redis_store : e.key # key} \cup {[key |-> key, data |-> data]}

\* a method returning the integer v
Returns(v) == [returns |-> v]

\* mutant: the remaining lifetime read without its try/except
_get_cache_ttl_unguarded(key, ttl) ==
    IF ~cache_enabled THEN Returns(0)
    ELSE IF ttl = CallFails THEN Raised
    ELSE IF ttl.value > 0 THEN Returns(ttl.value) ELSE Returns(0)

\* OptimizedAetherPayPredictor._get_cache_ttl; ttl is what
\* redis_client.ttl(key) does
_get_cache_ttl(key, ttl) ==
    IF ~cache_enabled THEN Returns(0)
    ELSE IF ttl = CallFails THEN Returns(0)
    ELSE IF ttl.value > 0 THEN Returns(ttl.value) ELSE Returns(0)

TUSD == <<"T", "U", "S", "D">>

\* OptimizedAetherPayPredictor._is_stablecoin_pair: every part of the pair
\* string is one of its stablecoin symbols
_is_stablecoin_pair(pair) ==
    LET stablecoins == <<USDC, USDT, DAI, BUSD, TUSD>>
        tokens == Split(pair, "/")
    IN  \A i \in 1..Len(tokens) : InList(tokens[i], stablecoins)

\* The result dict predict_optimized builds when it computes.  The quotes
\* of _fetch_dex_prices lie within 0.2% of one base price, so the
\* confidence of _calculate_optimal_price, max(0.5, min(0.99, 1 - std/mean)),
\* is 0.99; optimal_price is the weighted quote drawn by the caller.
ComputedResult(pair, amount, confidence_threshold, optimal_price) ==
    [pair |-> pair, current_price |-> optimal_price,
     confidence |-> Rat(99, 100), prediction_horizon |-> "5min",
     meets_threshold |-> RatLE(confidence_threshold, Rat(99, 100)),
     amount_usd |-> amount, from_cache |-> FALSE]

\* OptimizedAetherPayPredictor.predict_optimized: what it returns (or
\* Raised), the store it leaves and the redis calls of it that failed
PredictOptimized(pair, amount, confidence_threshold, get, ttl, setex, optimal_price) ==
    LET cache_key == _get_cache_key(pair, amount)
        cached == IF cache_enabled THEN _get_from_cache(cache_key, get) ELSE None
        hit == cached \notin {None, Raised}
        cache_ttl == _get_cache_ttl(cache_key, ttl)
        result == ComputedResult(pair, amount, confidence_threshold, optimal_price)
        saved == IF cache_enabled THEN _save_to_cache(cache_key, result, setex)
                 ELSE redis_store
        failed == (IF cache_enabled /\ get = CallFails THEN {"get"} ELSE {})
                  \cup (IF hit /\ ttl = CallFails THEN {"ttl"} ELSE {})
                  \cup (IF cache_enabled /\ ~hit /\ cached # Raised /\ setex = CallFails
                        THEN {"set"} ELSE {})
    IN  IF cached = Raised
        THEN [result |-> Raised, store |-> redis_store, failed |-> failed]
        ELSE IF hit
        THEN [result |-> IF cache_ttl = Raised THEN Raised
                         ELSE [pair |-> cached.pair,
                               current_price |-> cached.current_price,
                               confidence |-> cached.confidence,
                               prediction_horizon |-> cached.prediction_horizon,
                               meets_threshold |-> cached.meets_threshold,
                               amount_usd |-> cached.amount_usd,
                               from_cache |-> TRUE, cache_ttl |-> cache_ttl.returns],
              store |-> redis_store, failed |-> failed]
        ELSE [result |-> result, store |-> saved, failed |-> failed]

OpxPairs == {Pair(BTC, USDT), Pair(USDC, USDT)}

OpxAmounts == {RatInt(150), RatInt(250), RatInt(1000)}

OpxThresholds == {Rat(85, 100), RatInt(1)}

\* _get_base_price(pair) moved by the random factors of _fetch_dex_prices
OpxQuotes(pair) ==
    IF pair = Pair(BTC, USDT) THEN {RatInt(64990), RatInt(65010)}
    ELSE {Rat(9999, 10000), Rat(10001, 10000)}

\* what redis_client.get(key) can do: fail, find nothing, or return the
\* stored string (which may have been damaged)
GetOutcomes(key) ==
    {CallFails, Answers(None)}
    \cup {Answers(e.data) : e \in {e \in redis_store : e.key = key}}
    \cup {Answers(Garbled) : e \in {e \in redis_store : e.key = key}}

\* what redis_client.ttl(key) can do: fail, -2 for a key that has just
\* expired, or the seconds left
TtlOutcomes == {CallFails, Answers(-2), Answers(12)}

SetexOutcomes == {CallFails, Answers(TRUE)}

\* OptimizedAetherPayPredictor.__init__: cache_enabled tells whether the
\* ping reached the server
OpxNew ==
    /\ opx_pc = "new"
    /\ opx_pc' = "idle"
    /\ cache_enabled' \in BOOLEAN
    /\ UNCHANGED <<redis_store, opx_args, opx_result, opx_failed, optVars, aggVars, predVars, clsVars, cmpVars, splitVars, updVars>>

OpxCall ==
    /\ opx_pc = "idle"
    /\ \E pair \in OpxPairs, amount \in OpxAmounts, confidence_threshold \in OpxThresholds :
         opx_args' = [pair |-> pair, amount |-> amount,
                      confidence_threshold |-> confidence_threshold]
    /\ opx_pc' = "predict_optimized"
    /\ UNCHANGED <<cache_enabled, redis_store, opx_result, opx_failed, optVars, aggVars, predVars, clsVars, cmpVars, splitVars, updVars>>

predict_optimized ==
    /\ opx_pc = "predict_optimized"
    /\ \E get \in GetOutcomes(_get_cache_key(opx_args.pair, opx_args.amount)),
          ttl \in TtlOutcomes, setex \in SetexOutcomes,
          optimal_price \in OpxQuotes(opx_args.pair) :
         \E out \in {PredictOptimized(opx_args.pair, opx_args.amount,
                                      opx_args.confidence_threshold,
                                      get, ttl, setex, optimal_price)} :
            /\ opx_result' = out.result
            /\ redis_store' = out.store
            /\ opx_failed' = out.failed
    /\ opx_pc' = "returned"
    /\ UNCHANGED <<cache_enabled, opx_args, optVars, aggVars, predVars, clsVars, cmpVars, splitVars, updVars>>

OpxDone ==
    /\ opx_pc = "returned"
    /\ opx_pc' = "idle"
    /\ opx_args' = None
    /\ opx_result' = None
    /\ opx_failed' = {}
    /\ UNCHANGED <<cache_enabled, redis_store, optVars, aggVars, predVars, clsVars, cmpVars, splitVars, updVars>>

\* an entry's 30 seconds run out
OpxExpire ==
    /\ opx_pc = "idle"
    /\ \E e \in redis_store : redis_store' = redis_store \ {e}
    /\ UNCHANGED <<opx_pc, cache_enabled, opx_args, opx_result, opx_failed,
                   optVars, aggVars, predVars, clsVars, cmpVars, splitVars, updVars>>

OpxInit ==
    /\ opx_pc = "new"
    /\ cache_enabled = FALSE
    /\ redis_store = {}
    /\ opx_args = None
    /\ opx_result = None
    /\ opx_failed = {}

OpxNext == OpxNew \/ OpxCall \/ predict_optimized \/ OpxDone \/ OpxExpire

----------------------------------------------------------------------------
(* Classification of a pair string, as predict_30s does it *)

\* predict_30s up to the choice of the route: the pair the lookups run
\* under, the category tested first and the model-quality branch taken
\* for a pair that is neither stablecoin nor fiat
Classify(self, pair) ==
    LET mapped == MapWrapped(pair)
        quality == IF mapped \in DOMAIN self.model_quality THEN self.model_quality[mapped]
                   ELSE Rat(3, 10)
    IN  [canonical |-> mapped,
         category |-> IF InList(mapped, self.stable_pairs) THEN "stablecoin"
                      ELSE IF InList(mapped, self.fiat_pairs) THEN "fiat"
                      ELSE "other",
         branch |-> IF InList(mapped, self.stable_pairs) \/ InList(mapped, self.fiat_pairs)
                    THEN "none"
                    ELSE IF RatLT(Rat(5, 10), quality) THEN "high" ELSE "low"]

\* base and quote symbols of the pair strings classified: plain, wrapped,
\* and wrapped names with one more leading W
ClsBases ==
    {BTC, WBTC, <<"W">> \o WBTC, ETH, WETH, <<"W">> \o WETH, USDC, DAI, EUR, SHIB}

ClsQuotes == {USDT, USDC, USD, ETH, WETH}

ClsCall(pair) ==
    /\ cls_pc = "idle"
    /\ cls_pc' = "called"
    /\ cls_pair' = pair
    /\ UNCHANGED <<cls_first, cls_second, cmpVars, optVars, aggVars, predVars, cacheVars, splitVars, updVars>>

\* the pair string is classified
ClsClassify ==
    /\ cls_pc = "called"
    /\ cls_first' = Classify(predictor, cls_pair)
    /\ cls_pc' = "classified"
    /\ UNCHANGED <<cls_pair, cls_second, cmpVars, optVars, aggVars, predVars, cacheVars, splitVars, updVars>>

\* the pair it was normalized to is classified in turn
ClsReclassify ==
    /\ cls_pc = "classified"
    /\ cls_second' = Classify(predictor, cls_first.canonical)
    /\ cls_pc' = "reclassified"
    /\ UNCHANGED <<cls_pair, cls_first, cmpVars, optVars, aggVars, predVars, cacheVars, splitVars, updVars>>

ClsDone ==
    /\ cls_pc = "reclassified"
    /\ cls_pc' = "idle"
    /\ cls_pair' = None
    /\ cls_first' = None
    /\ cls_second' = None
    /\ UNCHANGED <<cmpVars, optVars, aggVars, predVars, cacheVars, splitVars, updVars>>

ClsInit ==
    /\ cls_pc = "idle"
    /\ cls_pair = None
    /\ cls_first = None
    /\ cls_second = None

ClsNext ==
    \/ \E base \in ClsBases, quote \in ClsQuotes : ClsCall(Pair(base, quote))
    \/ ClsClassify
    \/ ClsReclassify
    \/ ClsDone

----------------------------------------------------------------------------
(* Two quotes of aggregate_prices side by side *)

\* the quotes aggregate_prices can return for the validated prices ps
\* collected from the first Len(ps) sources
QuotesFrom(symbol, ps) ==
    LET results == {[source |-> Sources[i], price |-> ps[i]] : i \in 1..Len(ps)}
        aggregated_price == AggregatedPrice(ps)
        spread == Spread(ps, aggregated_price)
        confidence == Confidence(ps, spread)
    IN  {Quote(symbol, ps, results, rprice, rconf, rspread) :
            rprice \in Round(aggregated_price, 100000000),
            rconf \in Round(confidence, 1000),
            rspread \in Round(spread, 10000)}

\* the longest list of validated prices put side by side
MaxCompared == 3

\* validated ADA/USDT prices: close together, 2% apart and 10% apart
CmpPrices == {Rat(95, 100), Rat(95095, 100000), Rat(97, 100), Rat(105, 100)}

RECURSIVE PriceLists(_)
PriceLists(n) ==
    IF n = 0 THEN {<<>>}
    ELSE {Append(ps, p) : ps \in PriceLists(n - 1), p \in CmpPrices}

CmpLists == UNION {PriceLists(n) : n \in 1..MaxCompared}

CmpCall ==
    /\ cmp_pc = "idle"
    /\ cmp_pc' = "called"
    /\ \E first \in CmpLists, second \in CmpLists : cmp_prices' = <<first, second>>
    /\ UNCHANGED <<cmp_quotes, clsVars, optVars, aggVars, predVars, cacheVars, splitVars, updVars>>

\* aggregate_prices builds a quote from each list
CmpQuote ==
    /\ cmp_pc = "called"
    /\ \E first \in QuotesFrom(Pair(ADA, USDT), cmp_prices[1]),
          second \in QuotesFrom(Pair(ADA, USDT), cmp_prices[2]) :
          cmp_quotes' = <<first, second>>
    /\ cmp_pc' = "quoted"
    /\ UNCHANGED <<cmp_prices, clsVars, optVars, aggVars, predVars, cacheVars, splitVars, updVars>>

CmpDone ==
    /\ cmp_pc = "quoted"
    /\ cmp_pc' = "idle"
    /\ cmp_prices' = None
    /\ cmp_quotes' = None
    /\ UNCHANGED <<clsVars, optVars, aggVars, predVars, cacheVars, splitVars, updVars>>

CmpInit ==
    /\ cmp_pc = "idle"
    /\ cmp_prices = None
    /\ cmp_quotes = None

CmpNext == CmpCall \/ CmpQuote \/ CmpDone

----------------------------------------------------------------------------
(* The split of a large order over the DEXes, as _get_split_strategy does it *)

\* the liquidity entries of the dict _fetch_dex_prices builds, in insertion
\* order; curve is quoted for stablecoin pairs only
DexLiquidity(pair) ==
    <<[dex |-> "uniswap_v3", liquidity |-> 50000000],
      [dex |-> "sushiswap", liquidity |-> 20000000],
      [dex |-> "1inch", liquidity |-> 100000000]>>
    \o (IF _is_stablecoin_pair(pair)
        THEN <<[dex |-> "curve", liquidity |-> 200000000]>>
        ELSE <<>>)

RECURSIVE InsertByLiquidity(_, _)
InsertByLiquidity(e, s) ==
    IF s = <<>> THEN <<e>>
    ELSE IF e.liquidity > Head(s).liquidity THEN <<e>> \o s
    ELSE <<Head(s)>> \o InsertByLiquidity(e, Tail(s))

\* sorted(dex_prices.items(), key=liquidity, reverse=True)
RECURSIVE SortByLiquidity(_, _)
SortByLiquidity(list, acc) ==
    IF list = <<>> THEN acc
    ELSE SortByLiquidity(Tail(list), InsertByLiquidity(Head(list), acc))

\* max_amount = data['liquidity'] * 0.01
MaxAmount(liquidity) == liquidity \div 100

\* the dict appended for one DEX
SplitEntry(dex, split_amount, amount) ==
    [dex |-> dex, amount |-> split_amount,
     percentage |-> RatMul(Rat(split_amount, amount), RatInt(100))]

\* orders of the large and whale categories (amount > 10000), in and on
\* each edge of what one, two, three and four DEXes take
SplitAmounts ==
    {10001, 50000, 100000, 100001, 200000, 500000, 999999, 1000000, 1000001,
     1500000, 1500001, 1700000, 1700001, 2000000, 2000001, 3000000, 3000001,
     3500000, 3700000, 3700001, 5000000}

SplitPairs == {Pair(BTC, USDT), Pair(USDC, USDT)}

\* _get_smart_settlement_path calls self._get_split_strategy(amount, dex_prices)
SplitCall(pair, amount) ==
    /\ split_pc = "idle"
    /\ amount > 10000
    /\ split_pc' = "loop"
    /\ split_args' = [pair |-> pair, amount |-> amount]
    /\ splits' = <<>>
    /\ remaining' = amount
    /\ sorted_dexs' = SortByLiquidity(DexLiquidity(pair), <<>>)
    /\ UNCHANGED <<optVars, aggVars, predVars, cacheVars, clsVars, cmpVars, updVars>>

\* one pass of the for loop; the break leaves no DEX to visit
SplitStep ==
    /\ split_pc = "loop"
    /\ sorted_dexs # <<>>
    /\ LET data == Head(sorted_dexs)
           max_amount == MaxAmount(data.liquidity)
           split_amount == IF remaining < max_amount THEN remaining ELSE max_amount
           left == IF split_amount > 0 THEN remaining - split_amount ELSE remaining
       IN  /\ splits' = IF split_amount > 0
                        THEN Append(splits, SplitEntry(data.dex, split_amount,
                                                       split_args.amount))
                        ELSE splits
           /\ remaining' = left
           /\ sorted_dexs' = IF left <= 0 THEN <<>> ELSE Tail(sorted_dexs)
    /\ UNCHANGED <<split_pc, split_args, optVars, aggVars, predVars, cacheVars, clsVars, cmpVars, updVars>>

\* return splits
SplitReturn ==
    /\ split_pc = "loop"
    /\ sorted_dexs = <<>>
    /\ split_pc' = "returned"
    /\ UNCHANGED <<split_args, sorted_dexs, splits, remaining, optVars, aggVars, predVars, cacheVars, clsVars, cmpVars, updVars>>

SplitDone ==
    /\ split_pc = "returned"
    /\ split_pc' = "idle"
    /\ split_args' = None
    /\ sorted_dexs' = <<>>
    /\ splits' = <<>>
    /\ remaining' = 0
    /\ UNCHANGED <<optVars, aggVars, predVars, cacheVars, clsVars, cmpVars, updVars>>

SplitInit ==
    /\ split_pc = "idle"
    /\ split_args = None
    /\ sorted_dexs = <<>>
    /\ splits = <<>>
    /\ remaining = 0

SplitNext ==
    \/ \E pair \in SplitPairs, amount \in SplitAmounts : SplitCall(pair, amount)
    \/ SplitStep
    \/ SplitReturn
    \/ SplitDone

----------------------------------------------------------------------------
(* The model update pass, as ModelLifecycleManager.update_all_models does it *)

\* ModelLifecycleManager.config
max_model_age_days == 3

min_accuracy_threshold == Rat(85, 100)

\* ModelLifecycleManager.check_model_health.  model_exists tells whether the
\* model file is there; metadata is Raised when reading the metadata file
\* fails and the age in days it yields otherwise; current_accuracy is what
\* evaluate_model_performance returns (None, or an estimate of at least 0.5)
check_model_health(pair, model_exists, metadata, current_accuracy) ==
    IF ~model_exists
    THEN [pair |-> pair, exists |-> FALSE, age_days |-> None,
          current_accuracy |-> None, needs_update |-> TRUE,
          update_reason |-> <<"missing">>]
    ELSE LET aged == IF metadata = Raised THEN <<"metadata">>
                     ELSE IF metadata.returns > max_model_age_days THEN <<"age">>
                     ELSE <<>>
             degraded == IF current_accuracy # None
                            /\ RatLT(current_accuracy, min_accuracy_threshold)
                         THEN <<"accuracy">> ELSE <<>>
         IN  [pair |-> pair, exists |-> TRUE,
              age_days |-> IF metadata = Raised THEN None ELSE metadata,
              current_accuracy |-> current_accuracy,
              needs_update |-> (aged \o degraded # <<>>),
              update_reason |-> aged \o degraded]

\* mode = 'full' if not health['exists'] or health['age_days'] > 7 else
\* 'fast'; comparing None with 7 raises TypeError
UpdateMode(health) ==
    IF ~health.exists THEN [mode |-> "full"]
    ELSE IF health.age_days = None THEN Raised
    ELSE IF health.age_days.returns > 7 THEN [mode |-> "full"]
    ELSE [mode |-> "fast"]

\* update_summary after the loop body has run for a pair whose health
\* report is health; retrained is what retrain_model returns.  Raised when
\* the body raises
SummaryAfter(summary, health, retrained) ==
    LET checked == [summary EXCEPT !.checked = @ + 1]
    IN  IF ~health.needs_update THEN [checked EXCEPT !.skipped = @ + 1]
        ELSE IF UpdateMode(health) = Raised THEN Raised
        ELSE IF retrained THEN [checked EXCEPT !.updated = @ + 1]
        ELSE [checked EXCEPT !.failed = @ + 1]

UpdPairs == {Pair(BTC, USDT), Pair(ETH, USDT), Pair(EUR, USD)}

MaxActive == 3

\* what get_active_pairs can return: the pairs with enough recent rows, each
\* once (GROUP BY pair), or [] when the query fails
ActivePairLists ==
    {list \in UNION {[1..n -> UpdPairs] : n \in 0..MaxActive} :
        \A i, j \in 1..Len(list) : i # j => list[i] # list[j]}

\* ages of a model in days, around max_model_age_days and the 7 days of the
\* mode choice
AgeDays == {0, 3, 4, 7, 8}

MetadataOutcomes == {Raised} \cup {Returns(age) : age \in AgeDays}

AccuracyOutcomes == {None, Rat(1, 2), Rat(9, 10)}

\* the scheduler calls self.update_all_models()
UpdCall ==
    /\ upd_pc = "idle"
    /\ active_pairs' \in ActivePairLists
    /\ update_summary' = [checked |-> 0, updated |-> 0, failed |-> 0, skipped |-> 0]
    /\ upd_index' = 1
    /\ upd_health' = None
    /\ upd_pc' = "loop"
    /\ UNCHANGED <<optVars, aggVars, predVars, cacheVars, clsVars, cmpVars, splitVars>>

\* the body of the for loop for the pair at upd_index
UpdCheck ==
    /\ upd_pc = "loop"
    /\ upd_index <= Len(active_pairs)
    /\ \E model_exists \in BOOLEAN, metadata \in MetadataOutcomes,
          current_accuracy \in AccuracyOutcomes, retrained \in BOOLEAN :
         \E health \in {check_model_health(active_pairs[upd_index], model_exists,
                                           metadata, current_accuracy)} :
         \E after \in {SummaryAfter(update_summary, health, retrained)} :
            /\ upd_health' = health
            /\ IF after = Raised
               THEN /\ upd_pc' = "raised"
                    /\ update_summary' = [update_summary EXCEPT !.checked = @ + 1]
                    /\ UNCHANGED upd_index
               ELSE /\ upd_pc' = "loop"
                    /\ update_summary' = after
                    /\ upd_index' = upd_index + 1
    /\ UNCHANGED <<active_pairs, optVars, aggVars, predVars, cacheVars, clsVars, cmpVars, splitVars>>

\* the loop is over and the summary is logged
UpdComplete ==
    /\ upd_pc = "loop"
    /\ upd_index > Len(active_pairs)
    /\ upd_pc' = "completed"
    /\ UNCHANGED <<active_pairs, upd_index, update_summary, upd_health,
                   optVars, aggVars, predVars, cacheVars, clsVars, cmpVars, splitVars>>

\* the caller goes on: after the return, or after the exception reached it
UpdDone ==
    /\ upd_pc \in {"completed", "raised"}
    /\ upd_pc' = "idle"
    /\ active_pairs' = <<>>
    /\ upd_index' = 1
    /\ update_summary' = None
    /\ upd_health' = None
    /\ UNCHANGED <<optVars, aggVars, predVars, cacheVars, clsVars, cmpVars, splitVars>>

UpdInit ==
    /\ upd_pc = "idle"
    /\ active_pairs = <<>>
    /\ upd_index = 1
    /\ update_summary = None
    /\ upd_health = None

UpdNext == UpdCall \/ UpdCheck \/ UpdComplete \/ UpdDone

Init == OptInit /\ AggIdle /\ PredIdle /\ OpxInit /\ ClsInit /\ CmpInit /\ SplitInit /\ UpdInit

Spec == Init /\ [][PredNext]_vars

SpecPath == Init /\ [][OptNext]_vars

SpecAgg == Init /\ [][AggNext]_vars

SpecCache == Init /\ [][OpxNext]_vars

SpecClassify == Init /\ [][ClsNext]_vars

SpecCompare == Init /\ [][CmpNext]_vars

SpecSplit == Init /\ [][SplitNext]_vars

SpecUpdate == Init /\ [][UpdNext]_vars

\* one long-lived optimizer and predictor serving requests one at a time
SessionNext ==
    \/ pred_pc = "idle" /\ OptNext
    \/ opt_call = "idle" /\ PredNext

SpecSession == Init /\ [][SessionNext]_vars

----------------------------------------------------------------------------
(* Properties of the settlement-path optimizer *)

OptReturned == opt_call = "returned"

\* the scores of the catalog paths for the arguments of the current call
CallScores ==
    ScoredPaths(settlement_paths, opt_args.amount, opt_args.confidence,
                PairType(opt_args.pair))

\* path i comes before path j: higher score, or equal score and declared first
Before(scores, i, j) ==
    \/ RatLT(scores[j].score, scores[i].score)
    \/ scores[i].score = scores[j].score /\ i < j

\* position of path i in that ordering (1 = best)
RankOf(scores, i) ==
    1 + Cardinality({j \in 1..Len(scores) : j # i /\ Before(scores, j, i)})

\* C9: get_optimal_path returns the catalog path with the highest score (of
\* equal scores the one declared first), its alternatives are the names of
\* the next three paths in that ordering, the recommendation is never
\* empty and the chosen path is not among its alternatives.
C9_HighestScoreWins ==
    OptReturned =>
        /\ opt_result # None
        /\ Len(opt_result.alternative_paths) = 3
        /\ \A i \in 1..Len(settlement_paths) :
              /\ RankOf(CallScores, i) = 1 =>
                    opt_result.name = settlement_paths[i].name
              /\ RankOf(CallScores, i) \in 2..4 =>
                    opt_result.alternative_paths[RankOf(CallScores, i) - 1]
                        = settlement_paths[i].name
        /\ \A k \in 1..Len(opt_result.alternative_paths) :
              opt_result.alternative_paths[k] # opt_result.name

\* a crypto pair, mid-size order: Uniswap V3 wins through its category bonus
\* and three alternatives are listed
C9_Witness ==
    /\ OptReturned
    /\ opt_args.pair = Pair(BTC, USDT)
    /\ opt_args.amount = RatInt(5000)
    /\ opt_result.name = "Uniswap V3"
    /\ opt_result.alternative_paths[1] = "Curve Finance"
    /\ Len(opt_result.alternative_paths) = 3

\* the path that would be chosen with the base weights in place of the
\* amount-shifted ones (same confidence adjustment, same inputs)
UnshiftedChoice ==
    LET pair_type == PairType(opt_args.pair)
        scores == [i \in 1..Len(settlement_paths) |->
                     [score |-> WeightedScore(settlement_paths[i], opt_args.amount, pair_type,
                                    ConfidenceAdjusted(BaseWeights, opt_args.confidence))]]
    IN  settlement_paths[CHOOSE i \in 1..Len(scores) : RankOf(scores, i) = 1]

\* C10: for an amount above the large-order threshold the chosen path is at
\* least as reliable as the path the base weights would choose.
C10_LargeOrderReliability ==
    (OptReturned /\ RatLT(RatInt(10000), opt_args.amount)) =>
        RatLE(UnshiftedChoice.reliability, opt_result.reliability)

\* a large order where the shift changes the choice: the base weights pick
\* Curve Finance (0.99), the shifted ones Batched zk-Relay (0.995)
C10_Witness ==
    /\ OptReturned
    /\ RatLT(RatInt(10000), opt_args.amount)
    /\ UnshiftedChoice.name = "Curve Finance"
    /\ opt_result.name = "Batched zk-Relay"

----------------------------------------------------------------------------
(* Properties of the price aggregator *)

AggReturned == agg_pc \in {"returned", "exited"}

\* the call went through the source loop (no forex shortcut)
AggCollected == AggReturned /\ agg_source > Len(Sources)

\* the prices that valid sources contributed (the simulated one left out)
SourcePrices == {r \in source_results : r.source # "reference"}

\* list with the element at position k removed
RemoveAt(list, k) == SubSeq(list, 1, k - 1) \o SubSeq(list, k + 1, Len(list))

\* prices without one occurrence of its maximum and one of its minimum
Trimmed(list) ==
    LET hi == CHOOSE k \in 1..Len(list) : \A m \in 1..Len(list) : RatLE(list[m], list[k])
        rest == RemoveAt(list, hi)
        lo == CHOOSE k \in 1..Len(rest) : \A m \in 1..Len(rest) : RatLE(rest[k], rest[m])
    IN  RemoveAt(rest, lo)

\* x is v rounded to a multiple of 1/scale
IsRounded(x, v, scale) ==
    /\ scale % x.d = 0
    /\ RatLE(RatAbs(RatSub(x, v)), Rat(1, 2 * scale))

\* C2 as stated: with three or more valid prices the returned aggregated
\* price is the median of the prices left after removing one maximum and
\* one minimum.
C2_Original ==
    (AggCollected /\ Len(prices) >= 3) =>
        agg_result.aggregated_price = Median(Trimmed(prices))

\* C2 amended: the returned aggregated price is that median rounded to 8
\* decimal places; it depends on the multiset of prices only (the median is
\* taken of the sorted list).
C2_TrimmedMedianRounded ==
    (AggCollected /\ Len(prices) >= 3) =>
        /\ IsRounded(agg_result.aggregated_price, Median(Trimmed(prices)), 100000000)
        /\ Median(Trimmed(prices)) = Median(Trimmed(Sorted(prices)))
        /\ Len(prices) = 3 => agg_result.aggregated_price = Sorted(prices)[2]

\* four sources answered, out of order, and the two middle prices are one
\* tick (1e-8) apart: the median lies between two 8-decimal numbers
C2_Witness ==
    /\ AggCollected
    /\ Len(prices) = 4
    /\ RatLT(prices[2], prices[1])
    /\ agg_result.aggregated_price # Median(Trimmed(prices))

\* C3 as stated: aggregate_prices always returns a quote, and with zero
\* valid source prices the quote has is_simulated = true.
C3_Original ==
    AggReturned =>
        /\ agg_result # None
        /\ (AggCollected /\ SourcePrices = {}) => agg_result.is_simulated

\* C3 amended: a quote is returned exactly when a source gave a valid price
\* or the pair has a reference price; with zero valid source prices and a
\* reference price the quote is the simulated one; with neither, the result
\* is None and main prints the error "No price data available".
C3_QuoteUnlessNoData ==
    AggReturned =>
        /\ agg_result = None <=>
              (SourcePrices = {} /\ agg_symbol \notin DOMAIN reference_prices)
        /\ (AggCollected /\ SourcePrices = {} /\ agg_result # None) =>
              /\ agg_result.is_simulated
              /\ agg_result.source_count = 1
        /\ (AggCollected /\ SourcePrices # {}) => ~agg_result.is_simulated
        /\ agg_pc = "exited" =>
              IF agg_result = None
              THEN agg_output = [error |-> "No price data available", pair |-> agg_symbol]
              ELSE agg_output = agg_result

\* every source failed for a pair with a reference price: a simulated quote
C3_Witness ==
    /\ agg_pc = "exited"
    /\ agg_symbol = Pair(ADA, USDT)
    /\ SourcePrices = {}
    /\ agg_output.is_simulated

\* (max - min) / aggregated price over the valid prices, before any rounding
ExactSpread == RatDiv(RatSub(MaxOf(prices), MinOf(prices)), AggregatedPrice(prices))

Clamp(x, lo, hi) == IF RatLT(x, lo) THEN lo ELSE IF RatLT(hi, x) THEN hi ELSE x

ExactConfidence ==
    Clamp(RatSub(RatInt(1), RatMul(RatInt(10), ExactSpread)), Rat(5, 10), RatInt(1))

\* C4 as stated: the reported spread equals (max - min) / aggregated price
\* and the reported confidence equals min(1, max(0.5, 1 - 10 * spread)).
C4_Original ==
    (AggCollected /\ Len(prices) >= 2) =>
        /\ agg_result.spread = ExactSpread
        /\ agg_result.confidence = ExactConfidence

\* C4 amended: the reported spread is that ratio rounded to 4 decimal
\* places, the reported confidence is the clamped value rounded to 3
\* decimal places, and the confidence lies in [0.5, 1.0].
C4_SpreadConfidenceRounded ==
    (AggCollected /\ Len(prices) >= 2) =>
        /\ IsRounded(agg_result.spread, ExactSpread, 10000)
        /\ IsRounded(agg_result.confidence, ExactConfidence, 1000)
        /\ RatLE(Rat(5, 10), agg_result.confidence)
        /\ RatLE(agg_result.confidence, RatInt(1))

\* two sources one cent apart around 0.95: spread 0.01 / 0.955 = 0.01047...,
\* reported as 0.0105, confidence 0.895
C4_Witness ==
    /\ AggCollected
    /\ Len(prices) = 2
    /\ agg_result.spread = Rat(105, 10000)
    /\ agg_result.confidence = Rat(895, 1000)
    /\ agg_result.spread # ExactSpread

WithinBand(price, reference) ==
    RatLE(RatMul(RatInt(5), RatAbs(RatSub(price, reference))), reference)

\* C5: for a pair with a reference price only prices within 20% of it enter
\* the aggregate, and the returned aggregated price is within 20% of it.
C5_ReferenceBand ==
    (agg_pc # "idle" /\ agg_symbol \in DOMAIN reference_prices) =>
        /\ \A k \in 1..Len(prices) : WithinBand(prices[k], reference_prices[agg_symbol])
        /\ \A r \in source_results : WithinBand(r.price, reference_prices[agg_symbol])
        /\ (AggReturned /\ agg_result # None) =>
              WithinBand(agg_result.aggregated_price, reference_prices[agg_symbol])

\* both band edges (0.76 and 1.14 around 0.95) were accepted, and a source
\* contributed nothing
C5_Witness ==
    /\ AggCollected
    /\ agg_symbol = Pair(ADA, USDT)
    /\ \E k \in 1..Len(prices) : prices[k] = Rat(76, 100)
    /\ \E k \in 1..Len(prices) : prices[k] = Rat(114, 100)
    /\ Len(prices) < Len(Sources)

\* C16: within one aggregate_prices call the source fetches run
\* concurrently: no fetch starts after time has been spent waiting for an
\* earlier source, and the whole call waits no longer than the single
\* per-source timeout.
C16_ConcurrentBoundedWait ==
    /\ (agg_pc = "collecting" /\ agg_source <= Len(Sources)) => agg_waited = 0
    /\ AggCollected => agg_waited <= FetchTimeout

----------------------------------------------------------------------------
(* Properties of the prediction-strategy selector *)

PredReturned == pred_pc = "returned"

RequestIsStable == InList(MapWrapped(pred_args.pair), stable_pairs)

RequestIsFiat == InList(MapWrapped(pred_args.pair), fiat_pairs)

\* the result is a priced decision: no 'error' entry and all price entries
IsDecision(result) ==
    /\ ~Has(result, "error")
    /\ {"current_price", "predicted_price", "price_change", "confidence",
        "meets_threshold", "optimal_settlement_path"} \subseteq DOMAIN result

\* C1: for a pair that is in the stablecoin-pair set after wrapped-token
\* normalization, predict_30s returns current price 1.0, predicted price
\* 1.0, price change 0 and confidence 1.0, whatever the live service, the
\* table and the model do.
C1_StablecoinFixedRate ==
    (PredReturned /\ RequestIsStable) =>
        /\ IsDecision(pred_result)
        /\ pred_result.current_price = RatInt(1)
        /\ pred_result.predicted_price = RatInt(1)
        /\ pred_result.price_change = RatInt(0)
        /\ pred_result.confidence = RatInt(1)

\* a stablecoin request answered while the live service is down, the table
\* unreadable and no model loaded
C1_Witness ==
    /\ PredReturned
    /\ RequestIsStable
    /\ realtime_latest = Refused
    /\ realtime_oracle = Refused
    /\ ~exchange_rates.ok
    /\ models = {}
    /\ pred_result.predicted_price = RatInt(1)

\* model inference is unavailable: OraclePredictor.predict answers an error
InferenceUnavailable ==
    Has(predict(MapWrapped(pred_args.pair), pred_args.confidence_threshold), "error")

\* C6: for a pair that is neither stablecoin nor fiat, whatever its model
\* quality, when model inference is unavailable predict_30s returns a
\* complete decision, not an error: predicted price = current price,
\* confidence 0.7 and a settlement path.
C6_FallbackWhenInferenceUnavailable ==
    (/\ PredReturned
     /\ ~RequestIsStable
     /\ ~RequestIsFiat
     /\ pred_args.amount # None
     /\ InferenceUnavailable) =>
        /\ IsDecision(pred_result)
        /\ pred_result.predicted_price = pred_result.current_price
        /\ pred_result.confidence = Rat(7, 10)

\* C7: in every decision, of every category and for every threshold in
\* [0, 1], meets_threshold is true exactly when confidence >= threshold.
C7_MeetsThresholdIffConfidence ==
    (/\ PredReturned
     /\ IsDecision(pred_result)
     /\ RatLE(RatInt(0), pred_args.confidence_threshold)
     /\ RatLE(pred_args.confidence_threshold, RatInt(1))) =>
        (pred_result.meets_threshold <=>
            RatLE(pred_args.confidence_threshold, pred_result.confidence))

\* the rate stored for the request's pair under the key _get_latest_price
\* looks up
StoredRates ==
    IF exchange_rates.ok
    THEN {r.price : r \in {x \in exchange_rates.rows :
              /\ x.pair = Replace(pred_args.pair, <<"/">>, <<"_">>)
              /\ RatLT(RatInt(0), x.price)}}
    ELSE {}

C18_PairPreserved ==
    PredReturned =>
        /\ Has(pred_result, "pair")
        /\ pred_result.pair = pred_args.pair

\* a wrapped-asset request answered by the direct-model route, whose
\* lookups ran under the mapped pair
C18_Witness ==
    /\ PredReturned
    /\ pred_args.pair = Pair(WBTC, USDT)
    /\ MapWrapped(pred_args.pair) # pred_args.pair
    /\ IsDecision(pred_result)
    /\ pred_result.pair = Pair(WBTC, USDT)

----------------------------------------------------------------------------
(* Properties of calculate_path_score *)

OptScored == opt_call = "scored"

\* the weights the specification gives for an amount and a confidence, as
\* tenths in the order cost, speed, reliability, liquidity
StatedTenths(amount, confidence) ==
    LET base == IF RatLT(RatInt(10000), amount) THEN <<2, 1, 5, 2>>
                ELSE IF RatLT(amount, RatInt(1000)) THEN <<3, 5, 1, 1>>
                ELSE <<4, 3, 2, 1>>
    IN  IF RatLT(confidence, Rat(8, 10))
        THEN <<base[1] - 1, base[2] - 1, base[3] + 2, base[4]>>
        ELSE base

StatedWeights(amount, confidence) ==
    LET t == StatedTenths(amount, confidence)
    IN  [cost |-> Rat(t[1], 10), speed |-> Rat(t[2], 10),
         reliability |-> Rat(t[3], 10), liquidity |-> Rat(t[4], 10)]

----------------------------------------------------------------------------
(* The category bonus in get_optimal_path *)

\* the score of catalog path i for the current call before the category
\* bonus is applied
RawScore(i) ==
    WeightedScore(settlement_paths[i], opt_args.amount, "other",
                  ConfidenceAdjusted(AmountWeights(opt_args.amount),
                                     opt_args.confidence))

\* the catalog index of the path the current call returned
Chosen == CHOOSE i \in 1..Len(settlement_paths) :
              settlement_paths[i].name = opt_result.name

StableSmallOrder ==
    /\ OptReturned
    /\ opt_args.pair = Pair(USDC, USDT)
    /\ opt_args.amount = RatInt(500)

\* the chosen path is the stablecoin-affinity path and its reported score
\* is 1.2 times its score before the bonus
ChosenCarriesBonus ==
    /\ settlement_paths[Chosen].best_for = "stablecoin"
    /\ opt_result.optimization_factors.pair_type = "stablecoin"
    /\ opt_result.optimization_factors.score
           \in Round(RatMul(Rat(12, 10), RawScore(Chosen)), 1000)

\* C12 as stated: for USDC/USDT with amount 500 the chosen path is the
\* stablecoin-affinity path, its score carries the x1.2 bonus, and it wins
\* over a non-matching path whose score before the bonus is higher than its
\* own score before the bonus.
C12_Original ==
    StableSmallOrder =>
        /\ ChosenCarriesBonus
        /\ \E j \in 1..Len(settlement_paths) :
              /\ settlement_paths[j].best_for # "stablecoin"
              /\ RatLT(RawScore(Chosen), RawScore(j))

\* C12: for USDC/USDT with amount 500 the chosen path is the
\* stablecoin-affinity path (Curve Finance) and its score carries the x1.2
\* bonus; its score before the bonus is already higher than that of every
\* other catalog path, so the bonus widens its lead and decides nothing.
C12_StablecoinPathWins ==
    StableSmallOrder =>
        /\ ChosenCarriesBonus
        /\ opt_result.name = "Curve Finance"
        /\ \A j \in 1..Len(settlement_paths) :
              j # Chosen => RatLT(RawScore(j), RawScore(Chosen))

\* the example request answered, at the confidence a stablecoin decision
\* carries
C12_Witness ==
    /\ StableSmallOrder
    /\ opt_args.confidence = RatInt(1)
    /\ opt_result.name = "Curve Finance"
    /\ opt_result.alternative_paths[1] = "Uniswap V3"

----------------------------------------------------------------------------
(* Input validation, missing data *)

\* a pair string is well-formed when it has exactly one '/'
WellFormed(pair) == Len(Split(pair, "/")) = 2

\* a request with a non-positive amount, a threshold outside [0, 1] or a
\* malformed pair
InvalidRequest ==
    \/ pred_args.amount # None /\ RatLE(pred_args.amount, RatInt(0))
    \/ RatLT(pred_args.confidence_threshold, RatInt(0))
    \/ RatLT(RatInt(1), pred_args.confidence_threshold)
    \/ ~WellFormed(pred_args.pair)

\* C13: a request with a non-positive amount, a confidence threshold
\* outside [0, 1] or a malformed pair string is rejected with an error
\* before any price is fetched, any inference is made or any path is
\* chosen: the result is an error and carries no price and no path.
C13_InvalidInputRejected ==
    (PredReturned /\ InvalidRequest) =>
        /\ Has(pred_result, "error")
        /\ DOMAIN pred_result \cap
               {"current_price", "predicted_price", "fallback_price",
                "optimal_settlement_path"} = {}


\* the request's pair is unknown to the predictor and nothing prices it:
\* the live service gives no price, no reference price is configured and
\* nothing is stored for it
UnknownPairWithoutData ==
    LET mapped == MapWrapped(pred_args.pair)
    IN  /\ ~RequestIsStable
        /\ ~RequestIsFiat
        /\ mapped \notin DOMAIN model_quality
        /\ mapped \notin DOMAIN reference_prices
        /\ ~HasLivePrice(realtime_latest)
        /\ ~HasLivePrice(realtime_oracle)
        /\ (exchange_rates.ok => exchange_rates.rows = {})

\* C14: for an unknown pair that nothing prices, the request returns an
\* explicit unavailable result carrying the Safe Mode Settlement path, not
\* an ordinary priced decision.
C14_UnavailableWithSafeMode ==
    (/\ PredReturned
     /\ pred_args.amount # None
     /\ ~InvalidRequest
     /\ UnknownPairWithoutData) =>
        /\ Has(pred_result, "error")
        /\ ~Has(pred_result, "predicted_price")
        /\ Has(pred_result, "optimal_settlement_path")
        /\ pred_result.optimal_settlement_path.name = "Safe Mode Settlement"

----------------------------------------------------------------------------
(* Properties of the cached predictor *)

OpxReturned == opx_pc = "returned"

\* a request during which the cache was off or one of its calls raised
CacheFailedDuringRequest == ~cache_enabled \/ opx_failed # {}

DirectlyComputed ==
    /\ opx_result # Raised
    /\ opx_result.from_cache = FALSE
    /\ opx_result.pair = opx_args.pair
    /\ opx_result.amount_usd = opx_args.amount

\* C15 as stated: whatever cache call fails (the cache off since
\* construction, or a get, set or ttl raising), the request returns a
\* directly computed result.
C15_Original ==
    (OpxReturned /\ CacheFailedDuringRequest) => DirectlyComputed

\* C15: no failure of the cache surfaces as an error.  A request returns a
\* directly computed result whenever the cache is off or its get or set
\* call fails; when the get succeeded and only the ttl call fails, it
\* returns the cached entry with cache_ttl 0.
C15_CacheFailureNeverSurfaces ==
    OpxReturned =>
        /\ opx_result # Raised
        /\ (~cache_enabled \/ "get" \in opx_failed \/ "set" \in opx_failed)
               => DirectlyComputed
        /\ "ttl" \in opx_failed
               => (opx_result.from_cache = TRUE /\ opx_result.cache_ttl = 0)

C15_Witness ==
    /\ OpxReturned
    /\ cache_enabled
    /\ opx_failed = {"ttl"}
    /\ opx_result # Raised
    /\ opx_result.from_cache = TRUE
    /\ opx_result.cache_ttl = 0

----------------------------------------------------------------------------
(* Properties of a long-lived optimizer and predictor *)

\* what get_optimal_path returns for the arguments of the running call on
\* an optimizer that has served nothing yet
FreshOptimalPath ==
    LET pair_type == PairType(opt_args.pair)
        scored_paths == SortDesc(ScoredPaths(InitialSettlementPaths, opt_args.amount,
                                             opt_args.confidence, pair_type))
    IN  {OptimalPathResult(scored_paths, opt_args.pair, opt_args.amount,
                           opt_args.confidence, pair_type, rounded) :
            rounded \in Round(scored_paths[1].score, 1000)}

\* the same for get_all_paths_comparison
FreshPathsComparison ==
    LET pair_type == IF is_stablecoin_pair(opt_args.pair) THEN "stablecoin" ELSE "crypto"
    IN  {PathsComparison(InitialSettlementPaths, rounded) :
            rounded \in RoundEach([i \in 1..Len(InitialSettlementPaths) |->
                                      calculate_path_score(InitialSettlementPaths[i],
                                          opt_args.amount, opt_args.confidence,
                                          pair_type)], 1000)}

\* C17: no request mutates the path catalog or the predictor's tables.
\* After any sequence of get_optimal_path, get_all_paths_comparison,
\* calculate_path_score and predict_30s calls they equal their values at
\* construction, and what a call returns is what the same call returns on
\* a new instance.
C17_NoRequestMutatesTables ==
    /\ settlement_paths = InitialSettlementPaths
    /\ predictor = AetherPayPredictor
    /\ opt_call = "returned" => opt_result \in FreshOptimalPath
    /\ opt_call = "compared" => opt_result \in FreshPathsComparison
    /\ opt_call = "scored" =>
          \E i \in 1..Len(InitialSettlementPaths) :
             opt_result = calculate_path_score(InitialSettlementPaths[i], opt_args.amount,
                                               opt_args.confidence, opt_args.pair_type)
    /\ pred_pc = "returned" =>
          pred_result = Predict30s(AetherPayPredictor, pred_args.pair, pred_args.amount,
                                   pred_args.confidence_threshold)

\* a call at full confidence for an amount whose settlement time is
\* stretched, answered by an instance that has served a low-confidence
\* call before
C17_Witness ==
    /\ opt_call = "returned"
    /\ opt_low_seen
    /\ opt_args.confidence = RatInt(1)
    /\ RatLT(RatInt(50000), opt_args.amount)
    /\ opt_result \in FreshOptimalPath
    /\ \E i \in 1..Len(settlement_paths) :
          /\ settlement_paths[i].name = opt_result.name
          /\ opt_result.settlement_time_seconds # settlement_paths[i].base_time_seconds

----------------------------------------------------------------------------
(* Properties of the pair classification *)

\* C19: normalization and classification are idempotent: for every pair
\* string, normalizing its normalized form changes nothing, and the
\* normalized form is classified into the same category and the same
\* model-quality branch as the string itself.
C19_ClassificationIdempotent ==
    cls_pc = "reclassified" =>
        /\ cls_second.canonical = cls_first.canonical
        /\ cls_second.category = cls_first.category
        /\ cls_second.branch = cls_first.branch

----------------------------------------------------------------------------
(* Properties of the confidence of a quote *)

CmpQuoted == cmp_pc = "quoted"

\* at an equal number of sources the confidence does not rise with the spread
FallsWithSpread(a, b) ==
    (a.source_count = b.source_count /\ RatLT(a.spread, b.spread))
        => RatLE(b.confidence, a.confidence)

\* at an equal spread the confidence does not fall with the number of sources
RisesWithSources(a, b) ==
    (a.spread = b.spread /\ a.source_count < b.source_count)
        => RatLE(a.confidence, b.confidence)

\* C20 as stated: the confidence is monotonic in the spread and in the
\* number of sources, and a quote from two or more sources never has a
\* lower confidence than a quote from one.
C20_Original ==
    CmpQuoted =>
        /\ FallsWithSpread(cmp_quotes[1], cmp_quotes[2])
        /\ RisesWithSources(cmp_quotes[1], cmp_quotes[2])
        /\ (cmp_quotes[1].source_count = 1 /\ cmp_quotes[2].source_count >= 2)
              => RatLE(cmp_quotes[1].confidence, cmp_quotes[2].confidence)

\* C20: for an equal number of contributing sources the confidence does
\* not rise when the spread rises, and for an equal spread it does not
\* fall when the number of sources rises.  A quote from two or more
\* sources has at least the confidence of a single-source quote exactly
\* when its spread is at most 0.03.
C20_ConfidenceMonotonic ==
    CmpQuoted =>
        /\ FallsWithSpread(cmp_quotes[1], cmp_quotes[2])
        /\ RisesWithSources(cmp_quotes[1], cmp_quotes[2])
        /\ (cmp_quotes[1].source_count = 1 /\ cmp_quotes[2].source_count >= 2)
              => (RatLE(cmp_quotes[1].confidence, cmp_quotes[2].confidence)
                     <=> RatLE(cmp_quotes[2].spread, Rat(3, 100)))

\* a single-source quote next to a three-source quote of the same spread
\* and a higher confidence
C20_Witness ==
    /\ CmpQuoted
    /\ cmp_quotes[1].source_count = 1
    /\ cmp_quotes[2].source_count = 3
    /\ cmp_quotes[1].spread = cmp_quotes[2].spread
    /\ RatLT(cmp_quotes[1].confidence, cmp_quotes[2].confidence)

----------------------------------------------------------------------------
(* Properties of the conservative route *)

\* the request's pair has a model-quality score <= 0.5, or none
RequestIsLowQuality ==
    LET mapped == MapWrapped(pred_args.pair)
    IN  mapped \in DOMAIN model_quality => RatLE(model_quality[mapped], Rat(5, 10))

\* OraclePredictor.predict's answer to the request
ModelAnswer == predict(MapWrapped(pred_args.pair), pred_args.confidence_threshold)

Between(x, a, b) == RatLE(RatMin(a, b), x) /\ RatLE(x, RatMax(a, b))

\* C21: for a pair that is neither stablecoin nor fiat, with a model-quality
\* score <= 0.5 or none, when the model inference is available predict_30s
\* returns predicted price = 0.7 x current price + 0.3 x model-predicted
\* price and confidence = max(0.6, 0.85 x model confidence); the predicted
\* price lies between the current and the model-predicted price.
C21_ConservativeBlend ==
    (/\ PredReturned
     /\ ~RequestIsStable
     /\ ~RequestIsFiat
     /\ RequestIsLowQuality
     /\ pred_args.amount # None
     /\ ~InferenceUnavailable) =>
        /\ IsDecision(pred_result)
        /\ pred_result.predicted_price =
               RatAdd(RatMul(Rat(7, 10), pred_result.current_price),
                      RatMul(Rat(3, 10), model_output))
        /\ pred_result.confidence =
               RatMax(Rat(6, 10), RatMul(Rat(85, 100), ModelAnswer.confidence))
        /\ Between(pred_result.predicted_price, pred_result.current_price, model_output)

\* a low-quality pair blended from a latest price and a model output that
\* differ, with a model confidence high enough to matter
C21_Witness ==
    /\ PredReturned
    /\ pred_args.pair = Pair(ETH, USDT)
    /\ pred_args.amount # None
    /\ ~InferenceUnavailable
    /\ model_output # pred_result.current_price
    /\ pred_result.strategy = "conservative_weighted"
    /\ RatLT(Rat(6, 10), pred_result.confidence)
    /\ pred_result.predicted_price # pred_result.current_price

\* the default_rates table of _fiat_currency_response
FiatDefaultRates ==
    (Pair(CNY, USD) :> Rat(14, 100)) @@ (Pair(EUR, USD) :> Rat(108, 100)) @@
    (Pair(JPY, USD) :> Rat(67, 10000)) @@ (Pair(GBP, USD) :> Rat(126, 100))

\* C22: for a fiat pair with no known rate (neither the live service nor
\* the stored rates give one) the fiat decision quotes the pair's constant
\* of the default-rate table (EUR/USD 1.08) as current and predicted price.
C22_FiatFallbackConstant ==
    (/\ PredReturned
     /\ RequestIsFiat
     /\ pred_args.amount # None
     /\ ~InvalidRequest
     /\ pred_args.pair \in DOMAIN FiatDefaultRates
     /\ ~HasLivePrice(realtime_latest)
     /\ StoredRates = {}) =>
        /\ IsDecision(pred_result)
        /\ pred_result.current_price = FiatDefaultRates[pred_args.pair]
        /\ pred_result.predicted_price = FiatDefaultRates[pred_args.pair]

----------------------------------------------------------------------------
(* Properties of the pair categories *)

\* the category the stated first-match rule gives a pair: in the
\* stablecoin-pair set, else in the fiat-pair set, else both legs in the
\* crypto or stablecoin symbol lists, else other
StatedCategory(pair) ==
    LET symbols == <<BTC, ETH, SOL, ADA, BNB, MATIC, AVAX, USDC, USDT, DAI, BUSD>>
        legs == Split(pair, "/")
    IN  IF InList(pair, stable_pairs) THEN "stablecoin"
        ELSE IF InList(pair, fiat_pairs) THEN "fiat"
        ELSE IF Len(legs) = 2 /\ InList(legs[1], symbols) /\ InList(legs[2], symbols)
        THEN "crypto"
        ELSE "other"

\* C23: the category a pair is given follows the first-match order
\* stablecoin, fiat, crypto, other, a pair with both legs in the crypto or
\* stablecoin symbol lists (BTC/ETH) being crypto: the pair type
\* get_optimal_path works with is that category.
C23_FirstMatchCategory ==
    (OptReturned /\ StatedCategory(opt_args.pair) # "fiat") =>
        opt_result.optimization_factors.pair_type = StatedCategory(opt_args.pair)

----------------------------------------------------------------------------
(* Properties of wrapped-asset pairs *)

\* what get_optimal_path returns for a pair, amount and confidence
OptimalPathFor(pair, amount, confidence) ==
    LET pair_type == PairType(pair)
        scored_paths == SortDesc(ScoredPaths(settlement_paths, amount, confidence, pair_type))
    IN  {OptimalPathResult(scored_paths, pair, amount, confidence, pair_type, rounded) :
            rounded \in Round(scored_paths[1].score, 1000)}

\* C24: a pair naming a wrapped asset is treated as its underlying pair in
\* every component: the path chosen for WBTC/USDT, its category and its
\* score are those of BTC/USDT for the same amount and confidence.
C24_WrappedAsUnderlying ==
    (OptReturned /\ MapWrapped(opt_args.pair) # opt_args.pair) =>
        \E underlying \in OptimalPathFor(MapWrapped(opt_args.pair), opt_args.amount,
                                         opt_args.confidence) :
           /\ opt_result.name = underlying.name
           /\ opt_result.optimization_factors.pair_type =
                  underlying.optimization_factors.pair_type
           /\ opt_result.optimization_factors.score =
                  underlying.optimization_factors.score

----------------------------------------------------------------------------
(* Properties of the calls made while a request is handled *)

\* C25: handling a request for a stablecoin pair or a fiat pair never
\* involves the quote aggregator: between the request and its response
\* the live aggregated-price service is not called.
C25_NoAggregatorForStableOrFiat ==
    (/\ PredReturned
     /\ pred_args.amount # None
     /\ ~InvalidRequest
     /\ (RequestIsStable \/ RequestIsFiat)) => realtime_requests = <<>>


----------------------------------------------------------------------------
(* Properties of what a request receives from the cache *)

\* the result answers the request that received it
ReflectsRequest(result, args) ==
    /\ result.amount_usd = args.amount
    /\ result.meets_threshold = RatLE(args.confidence_threshold, result.confidence)

\* C26: every result predict_optimized returns, computed or read from the
\* cache, carries the receiving request's amount as amount_usd and tells as
\* meets_threshold whether its confidence reaches the receiving request's
\* threshold
C26_ResultReflectsRequest ==
    (OpxReturned /\ opx_result # Raised) => ReflectsRequest(opx_result, opx_args)


----------------------------------------------------------------------------
(* Properties of the ranked comparison *)

OptCompared == opt_call = "compared"

\* the ranked list starts with the path and the alternatives of an answer
\* of get_optimal_path
RankedAs(ranked, optimal) ==
    /\ ranked[1].name = optimal.name
    /\ \A i \in 1..Len(optimal.alternative_paths) :
          ranked[i + 1].name = optimal.alternative_paths[i]

\* C27: for every pair, amount and confidence the first entry of the list
\* get_all_paths_comparison returns is the path get_optimal_path chooses for
\* the same arguments, and the next three entries are the alternatives
\* get_optimal_path reports, in the same order
C27_ComparisonAgreesWithOptimal ==
    OptCompared =>
        \E optimal \in OptimalPathFor(opt_args.pair, opt_args.amount, opt_args.confidence) :
           RankedAs(opt_result, optimal)

\* the same for the pairs both methods score under one pair type
C27_SameTypeAgrees ==
    (OptCompared /\ PairType(opt_args.pair) # "other") =>
        \E optimal \in OptimalPathFor(opt_args.pair, opt_args.amount, opt_args.confidence) :
           RankedAs(opt_result, optimal)


----------------------------------------------------------------------------
(* Properties of the stablecoin classification across components *)

\* predict_30s answers the pair on its stablecoin route (1.0 / 1.0)
InStablePairSet(pair) == InList(MapWrapped(pair), predictor.stable_pairs)

\* C28: the components agree on which pairs are stablecoin pairs: a pair is
\* typed stablecoin by the path optimizer, and classified stablecoin by the
\* optimized predictor, exactly when it is in the predictor's stablecoin
\* pair set
C28_StablecoinAgreement ==
    OptReturned =>
        /\ (opt_result.optimization_factors.pair_type = "stablecoin")
               <=> InStablePairSet(opt_args.pair)
        /\ _is_stablecoin_pair(opt_args.pair) <=> InStablePairSet(opt_args.pair)


----------------------------------------------------------------------------
(* Properties of the order split *)

RECURSIVE SumAmounts(_)
SumAmounts(list) ==
    IF list = <<>> THEN 0 ELSE Head(list).amount + SumAmounts(Tail(list))

RECURSIVE SumPercentages(_)
SumPercentages(list) ==
    IF list = <<>> THEN RatInt(0)
    ELSE RatAdd(Head(list).percentage, SumPercentages(Tail(list)))

LiquidityOf(pair, dex) ==
    LET quoted == DexLiquidity(pair)
    IN  quoted[CHOOSE i \in 1..Len(quoted) : quoted[i].dex = dex].liquidity

\* at every step of the loop what is left and what is allotted make up the order
SplitConserves ==
    split_pc \in {"loop", "returned"} =>
        remaining + SumAmounts(splits) = split_args.amount

\* no DEX is allotted more than 1% of its liquidity
SplitWithinCaps ==
    split_pc \in {"loop", "returned"} =>
        \A i \in 1..Len(splits) :
           splits[i].amount * 100 <= LiquidityOf(split_args.pair, splits[i].dex)

\* the splits returned make up the whole order
SplitComplete ==
    split_pc = "returned" =>
        /\ SumAmounts(splits) = split_args.amount
        /\ SumPercentages(splits) = RatInt(100)

\* C29: _get_split_strategy allocates the whole order: at each loop step
\* remaining plus the sum of the splits equals the amount, each split is at
\* most 1% of its DEX's liquidity, and on return the splits sum to the
\* amount and their percentages to 100
C29_SplitAllocatesWholeOrder ==
    SplitConserves /\ SplitWithinCaps /\ SplitComplete


----------------------------------------------------------------------------
(* Properties of the model update pass *)

\* the pass does not end in an exception
UpdNeverRaises == upd_pc # "raised"

\* each pair the loop has passed has been counted once, under one outcome
UpdCounts ==
    upd_pc \in {"loop", "completed"} =>
        /\ update_summary.checked = upd_index - 1
        /\ update_summary.checked =
              update_summary.updated + update_summary.failed + update_summary.skipped

\* on completion every active pair has been checked
UpdChecksAll ==
    upd_pc = "completed" => update_summary.checked = Len(active_pairs)

\* C30: update_all_models runs to completion for every list of active pairs
\* and every model health state; each active pair is checked exactly once,
\* and on completion checked = updated + failed + skipped = the number of
\* active pairs
C30_UpdateRunsToCompletion ==
    UpdNeverRaises /\ UpdCounts /\ UpdChecksAll

====
